---- MODULE Spec2Model ----
(***************************************************************************)
(* Model of the Gaussian-density GPU pipeline                              *)
(* (src/src/mol-math/geometry/gaussian-density/gpu.ts) and of the boundary *)
(* fitter (src/src/mol-math/geometry/boundary.ts).                         *)
(*                                                                         *)
(* Numbers.  Grid dimensions, tile cursors and pixel offsets are integers  *)
(* in the code as well as here.  The one non-finite value the layout       *)
(* planner can produce, Math.ceil(dz / 0) = Infinity, is the value         *)
(* Infinity below: it is larger than every finite number of the model and  *)
(* is absorbing under JsMul.                                               *)
(*                                                                         *)
(* The boundary fitter works on points with integer coordinates.  Squared  *)
(* distances are then integers, and a distance or radius is a number of    *)
(* the form  c1 * sqrt(q1) + c2 * sqrt(q2) + ...  , kept exactly as the    *)
(* function q |-> c (NumSqrt, NumAdd, NumSub); the rational part is the    *)
(* coefficient of sqrt(1).  The comparisons of tryAdjustBoundary are made  *)
(* on the squares, where they are integer comparisons.                     *)
(***************************************************************************)
EXTENDS Integers, Naturals, Sequences, FiniteSets, TLC

(* ------------------------------ bounds --------------------------------- *)
MaxDx == 3
MaxDy == 2
MaxDz == 3
MaxCalls == 2
MaxPoints == 2
\* the codec is run on 0 .. MaxCodecValue and on the values around its byte borders
MaxCodecValue == 300
\* the PositionData arrays have indices 0 .. MaxIndex
MaxIndex == 2
\* create / update calls on a DirectVolume
MaxVolumeOps == 3
\* links handed to createLinkCylinderMesh / createLinkLines
MaxLinks == 2
\* changes made to the cells of the data state
MaxEdits == 5
\* half the extent of the fitted point sets
Scale == 20

Dims == (1..MaxDx) \X (1..MaxDy) \X (1..MaxDz)

\* grids with an axis of extent 0
EmptyDims == ((0..MaxDx) \X (0..MaxDy) \X (0..MaxDz)) \ Dims

VARIABLES
    blendMinMax,     \* webgl.extensions.blendMinMax is present
    calls,           \* number of pipeline invocations started
    pc,              \* position of the running invocation
    entry,           \* exported function that was called
    dim,             \* gridDim = <<dx, dy, dz>>
    lay,             \* result of getTexture2dSize(dim)
    gridTexDim,      \* <<width, height, depth>> handed to the renderable / extraction
    texture,         \* the output texture of the invocation (a key of textures)
    textures,        \* texture objects: created flag and defined size
    tmpFramebuffer,  \* _tmpFramebuffer has been created
    renderable,      \* _GaussianDensityRenderable and its value cells
    glstate,         \* colour mask, blend function, blend equation, viewport
    pass,            \* index into PassOrder of the pass being set up / rendered
    cursor,          \* locals of render(): i, currCol, currX, currY
    batches,         \* render() calls of this invocation, in order
    drawnAt,         \* viewport origin of every slice draw of the latest render()
    ex,              \* locals of fieldFromTexture2d
    readAt,          \* tile origin fieldFromTexture2d read every slice from
    position,        \* the points the caller asks a density for
    instances,       \* drawCount, aPosition, aGroup of the renderable
    image,           \* the pixels of every texture: <<r, g, b, a>> bytes
    readback,        \* fieldFromTexture2d: the image read back, data and idData
    allocs,          \* number of GPU objects created so far, by the variable holding them
    bpc,             \* position of the caller of the boundary fitter
    fits,            \* number of getBoundary calls started
    data,            \* PositionData: the points, in index order, with their radii
    hasRadius,       \* data.radius is present
    tracksExtrema,   \* the boundary helper reports extrema
    helpers,         \* boundaryHelperCoarse / boundaryHelperFine
    t,               \* loop index of getBoundary
    p,               \* module-level scratch vector p
    extremPoint,     \* module-level scratch vector extremPoint
    boundary,        \* the boundary the caller holds
    result,          \* what the last tryAdjustBoundary returned
    other,           \* an earlier getBoundary call: its data and the boundary it returned
    codec,           \* a value on its way through the float-channel codec
    directVolume,    \* a DirectVolume: its cells, and the closure of its getter
    links,           \* createLinkCylinderMesh / createLinkLines: input, edgeIndex, output
    hierarchy        \* StructureHierarchyManager: state and caches

gpuVars == <<blendMinMax, calls, pc, entry, dim, lay, gridTexDim, texture, textures,
             tmpFramebuffer, renderable, glstate, pass, cursor, batches, drawnAt,
             ex, readAt, position, instances, image, readback, allocs>>

pixVars == <<position, instances, image, readback>>

bndVars == <<bpc, fits, data, hasRadius, tracksExtrema, helpers, t, p, extremPoint,
             boundary, result, other>>

extVars == <<directVolume, links, hierarchy>>

vars == <<gpuVars, bndVars, codec, extVars>>

(* --------------------------- JS number helpers ------------------------- *)
Infinity == 1000000
\* NaN: the result of 0 * Infinity and of 0 / 0; every comparison with it is false
NaN == -1000000

Max(a, b) == IF a >= b THEN a ELSE b

\* a * b for non-negative operands, one of which may be Infinity or NaN
JsMul(a, b) ==
    IF a = NaN \/ b = NaN THEN NaN
    ELSE IF a = Infinity \/ b = Infinity
         THEN (IF a = 0 \/ b = 0 THEN NaN ELSE Infinity)
         ELSE a * b

\* Math.ceil(a / b) for a >= 1, b >= 0: division by zero gives Infinity
JsCeilDiv(a, b) == IF b = 0 THEN Infinity ELSE (a + b - 1) \div b

RECURSIVE Pow2AtLeastSq(_, _)
\* least e in {e0, 2 e0, 4 e0, ...} with e * e >= area
Pow2AtLeastSq(e, area) == IF e * e >= area THEN e ELSE Pow2AtLeastSq(2 * e, area)

\* Math.pow(2, Math.ceil(Math.log(Math.sqrt(area)) / Math.log(2))):
\* the least power of two that is >= sqrt(area); 0 for area = 0 (2 ^ -Infinity)
PowerOfTwoSize(area) == IF area = 0 THEN 0 ELSE Pow2AtLeastSq(1, area)

(* --------------------------- getTexture2dSize -------------------------- *)
getTexture2dSizeCeilCols(gridDim) ==
    LET dx == gridDim[1]
        dy == gridDim[2]
        dz == gridDim[3]
        area == dx * dy * dz
        powerOfTwoSize == PowerOfTwoSize(area)
    IN  IF powerOfTwoSize < dx * dz
        THEN LET texCols == JsCeilDiv(powerOfTwoSize, dx)
                 texRows == JsCeilDiv(dz, texCols)
                 texDimX == texCols * dx
                 texDimY == JsMul(dy, texRows)
             IN  [texDimX |-> texDimX, texDimY |-> texDimY, texRows |-> texRows,
                  texCols |-> texCols, powerOfTwoSize |-> texDimY]
        ELSE [texDimX |-> dx * dz, texDimY |-> dy, texRows |-> 1,
              texCols |-> dz, powerOfTwoSize |-> dy]

getTexture2dSize(gridDim) ==
    LET dx == gridDim[1]
        dy == gridDim[2]
        dz == gridDim[3]
        area == dx * dy * dz
        powerOfTwoSize == PowerOfTwoSize(area)
    IN  IF powerOfTwoSize < dx * dz
        THEN LET texCols == powerOfTwoSize \div dx
                 texRows == JsCeilDiv(dz, texCols)
                 texDimX == texCols * dx
                 texDimY == JsMul(dy, texRows)
             IN  [texDimX |-> texDimX, texDimY |-> texDimY, texRows |-> texRows,
                  texCols |-> texCols, powerOfTwoSize |-> texDimY]
        ELSE [texDimX |-> dx * dz, texDimY |-> dy, texRows |-> 1,
              texCols |-> dz, powerOfTwoSize |-> dy]

(* ------------------------------ textures ------------------------------- *)
TexIds == {"_tmpTexture", "_minDistanceTexture2d", "_minDistanceTexture3d", "texture"}

NoTexture == [created |-> FALSE, w |-> 0, h |-> 0, d |-> 0]

\* a !== b for numbers: NaN differs from everything, itself included
JsDiffer(a, b) == a = NaN \/ b = NaN \/ a # b

\* the texture object after texture.define(w, h, d); define(w, h) leaves depth 0
defineTexture(w, h, d) == [created |-> TRUE, w |-> w, h |-> h, d |-> d]

\* the create / else-if-define pattern of the 2D path defines a texture that is
\* new or whose width or height differs (its depth is not looked at); the
\* pattern of the 3D path also when its depth differs
defines2d(tex, w, h) == ~tex.created \/ JsDiffer(tex.w, w) \/ JsDiffer(tex.h, h)
defines3d(tex, w, h, d) ==
    ~tex.created \/ JsDiffer(tex.w, w) \/ JsDiffer(tex.h, h) \/ JsDiffer(tex.d, d)

\* the texture argument of calcGaussianDensityTexture2d/3d: the cached
\* _tmpTexture, the oldTexture of the caller, or none
NoArgument == "none"

(* --------------------------- the three passes -------------------------- *)
\* the order of the setup*/render pairs at the end of calcGaussianDensityTexture2d/3d
PassOrderSwapped == <<"density", "groupId", "minDistance">>
PassOrder == <<"density", "minDistance", "groupId">>

\* render(texture, true); render(_minDistanceTexture, true); render(texture, false)
RenderTarget(type, path) ==
    IF type = "minDistance"
    THEN (IF path = "2d" THEN "_minDistanceTexture2d" ELSE "_minDistanceTexture3d")
    ELSE texture
RenderClear(type) == type # "groupId"

Path == IF entry = "GaussianDensityTexture3d" THEN "3d" ELSE "2d"

NoRenderable == [created |-> FALSE, dCalcType |-> "density", dGridTexType |-> "2d",
                 tMinDistanceTex |-> "_minDistanceTexture2d",
                 uCurrentSlice |-> 0, uCurrentX |-> 0, uCurrentY |-> 0]

getGaussianDensityRenderableKeepsBinding(minDistanceTexture, depth) ==
    [created |-> TRUE, dCalcType |-> "density",
     dGridTexType |-> IF renderable.created THEN renderable.dGridTexType
                      ELSE IF depth > 0 THEN "3d" ELSE "2d",
     tMinDistanceTex |-> IF renderable.created THEN renderable.tMinDistanceTex
                         ELSE minDistanceTexture,
     uCurrentSlice |-> 0, uCurrentX |-> 0, uCurrentY |-> 0]

\* getGaussianDensityRenderable: both branches leave the cells at these values
getGaussianDensityRenderable(minDistanceTexture, depth) ==
    [created |-> TRUE, dCalcType |-> "density",
     dGridTexType |-> IF depth > 0 THEN "3d" ELSE "2d",
     tMinDistanceTex |-> minDistanceTexture,
     uCurrentSlice |-> 0, uCurrentX |-> 0, uCurrentY |-> 0]

NoCursor == [i |-> 0, currCol |-> 0, currX |-> 0, currY |-> 0]
NoEx == [iz |-> 0, tmpCol |-> 0, tmpRow |-> 0, fboTexCols |-> 0, width |-> 0,
         height |-> 0, imageLength |-> 0, maxIdx |-> -1, readPixels |-> 0]

GlDefaults == [colorMask |-> <<TRUE, TRUE, TRUE, TRUE>>, blendFunc |-> <<"ONE", "ZERO">>,
               blendEquation |-> "FUNC_ADD", viewport |-> <<0, 0, 0, 0>>]

(* ------------------------- points and pixels --------------------------- *)
Min(a, b) == IF a <= b THEN a ELSE b

\* prepareGaussianDensityData: one instance per point, groups[i] = i without ids.
\* A point is kept by the grid cell its density reaches: the first cell of the
\* first slice or the last cell of the last slice.
prepareGaussianDensityData(pos) ==
    [drawCount |-> Len(pos),
     aPosition |-> [k \in 1..Len(pos) |-> pos[k].cell],
     aGroup |-> [k \in 1..Len(pos) |-> k - 1]]

NoInstances == [drawCount |-> 0, aPosition |-> <<>>, aGroup |-> <<>>]

InstanceCell(where, d) ==
    IF where = "first" THEN <<0, 0, 0>> ELSE <<d[1] - 1, d[2] - 1, d[3] - 1>>

\* the pixels of a texture defined w x h (x d for a volume texture); a texture
\* defined with a width of 0 has none
TexPixels(w, h, d, volume) ==
    IF w = 0 \/ h \in {Infinity, NaN} THEN {}
    ELSE (0..(w - 1)) \X (0..(h - 1)) \X (IF volume THEN 0..(d - 1) ELSE {0})

\* a texture is zero-filled when it is defined
Blank(w, h, d, volume) == [px \in TexPixels(w, h, d, volume) |-> <<0, 0, 0, 0>>]

\* the pixels of a texture after the create / else-if-define pattern: blank
\* when texture.define was called, kept otherwise
definePixels(img, defined, w, h, d, volume) ==
    IF defined THEN Blank(w, h, d, volume) ELSE img

\* float-packing: an integer of 0 .. 2^24 - 1 in three bytes, base 256
encodeFloatRGB(v) == <<(v \div 65536) % 256, (v \div 256) % 256, v % 256>>
decodeFloatRGB(r, g, b) ==
    IF r = NaN \/ g = NaN \/ b = NaN THEN NaN ELSE r * 65536 + g * 256 + b

\* idData[j] = decodeFloatRGB(image[idx], image[idx + 1], image[idx + 2])
idDataOfReversed(r, g, b) == decodeFloatRGB(b, g, r)
idDataOf(r, g, b) == decodeFloatRGB(r, g, b)

NoCodec == [pc |-> "off", v |-> 0, rgb |-> <<0, 0, 0>>, id |-> 0]

\* gl_FragColor of the gaussian-density shader for a cell a point reaches
fragment(type, group) ==
    IF type = "groupId"
    THEN LET c == encodeFloatRGB(group) IN <<c[1], c[2], c[3], 0>>
    ELSE <<0, 0, 0, 128>>

\* one channel of the framebuffer after blending src into old
blendChannel(old, src, func, eq) ==
    IF func = <<"ONE", "ONE">>
    THEN (IF eq = "MAX" THEN Max(old, src) ELSE Min(255, old + src))
    ELSE src

\* the colour mask decides which channels a draw or a clear may write
blendPixel(old, src, g) ==
    [c \in 1..4 |-> IF g.colorMask[c]
                    THEN blendChannel(old[c], src[c], g.blendFunc, g.blendEquation)
                    ELSE old[c]]

\* gl.clear(gl.COLOR_BUFFER_BIT) with clear colour (0, 0, 0, 0) on one layer
clearPixels(content, g, layer) ==
    [px \in DOMAIN content |->
        IF px[3] = layer THEN [c \in 1..4 |-> IF g.colorMask[c] THEN 0 ELSE content[px][c]]
        ELSE content[px]]

\* renderable.render() for slice i with the viewport at org: every instance
\* whose cell is in slice i is blended into its pixel
RECURSIVE drawInstances(_, _, _, _, _, _, _, _)
drawInstances(content, k, inst, type, g, org, i, d) ==
    IF k > inst.drawCount THEN content
    ELSE LET c == InstanceCell(inst.aPosition[k], d)
             px == <<org[1] + c[1], org[2] + c[2], org[3]>>
         IN  drawInstances(
                 IF c[3] = i /\ px \in DOMAIN content
                 THEN [content EXCEPT ![px] = blendPixel(@, fragment(type, inst.aGroup[k]), g)]
                 ELSE content,
                 k + 1, inst, type, g, org, i, d)

\* the module-level caches, "framebuffer" for the framebuffers that are created
\* into a local variable, and "texture" for the output textures that are created
\* when the caller hands in none
Resources == {"_tmpTexture", "_minDistanceTexture2d", "_minDistanceTexture3d",
              "_tmpFramebuffer", "_GaussianDensityRenderable", "framebuffer", "texture"}

\* if (!cache) cache = create(): one more object when the cache is empty
createdIfMissing(a, r, present) == IF present THEN a ELSE [a EXCEPT ![r] = @ + 1]

\* const framebuffer = resources.framebuffer()
createdAnew(a, r) == [a EXCEPT ![r] = @ + 1]

NoReadback == [image |-> <<>>, data |-> <<>>, idData |-> <<>>]

\* image[idx] of the Uint8Array that readPixels filled row by row: undefined,
\* and NaN in arithmetic, beyond its length
imageByte(img, width, length, idx) ==
    IF idx >= length THEN NaN
    ELSE img[<<(idx \div 4) % width, (idx \div 4) \div width, 0>>][(idx % 4) + 1]

\* image[idx + 3] / 255, kept as the numerator over 255; NaN / 255 is NaN
alphaOver255(a) == [num |-> a, den |-> 255]

(* ======================================================================= *)
(* Boundary fitter (boundary.ts)                                           *)
(* ======================================================================= *)

(* ------------------------------ JS doubles ----------------------------- *)
\* Natural numbers of any size as sequences of 15-bit limbs, lowest limb
\* first, without leading zero limbs: the 53-bit significands of doubles and
\* their products do not fit the integers of the model checker.  Carries are
\* looked ahead rather than rippled, so that no operation recurses over limbs.
Base == 2 ^ 15
LimbMax(S) == CHOOSE x \in S : \A y \in S : y <= x
LLimb(a, i) == IF i >= 1 /\ i <= Len(a) THEN a[i] ELSE 0
LNorm(a) ==
    LET S == {i \in 1..Len(a) : a[i] # 0}
    IN  IF S = {} THEN <<>> ELSE SubSeq(a, 1, LimbMax(S))
\* for 0 <= n < 2^31
LFromInt(n) == LNorm(<<n % Base, (n \div Base) % Base, n \div (Base * Base)>>)
\* -1, 0, 1 as a < b, a = b, a > b
LCmp(a, b) ==
    IF Len(a) # Len(b) THEN (IF Len(a) < Len(b) THEN -1 ELSE 1)
    ELSE LET D == {i \in 1..Len(a) : a[i] # b[i]}
         IN  IF D = {} THEN 0 ELSE IF a[LimbMax(D)] > b[LimbMax(D)] THEN 1 ELSE -1
\* limb i receives a carry when a lower limb overflows and every limb between
\* the two is full
LAdd(a, b) ==
    LET n == (IF Len(a) >= Len(b) THEN Len(a) ELSE Len(b)) + 1
        s == [i \in 1..n |-> LLimb(a, i) + LLimb(b, i)]
        carry == [i \in 1..n |->
                    IF \E j \in 1..(i - 1) :
                          s[j] >= Base /\ \A k \in (j + 1)..(i - 1) : s[k] = Base - 1
                    THEN 1 ELSE 0]
    IN  LNorm([i \in 1..n |-> (s[i] + carry[i]) % Base])
\* a - b for a >= b
LSub(a, b) ==
    LET n == Len(a)
        borrow == [i \in 1..n |->
                     IF \E j \in 1..(i - 1) :
                           a[j] < LLimb(b, j) /\ \A k \in (j + 1)..(i - 1) : a[k] = LLimb(b, k)
                     THEN 1 ELSE 0]
    IN  LNorm([i \in 1..n |-> (a[i] - LLimb(b, i) - borrow[i] + Base) % Base])
\* a * d for an integer 0 <= d <= Base: the low halves of the limb products
\* plus their high halves one limb up
LMulInt(a, d) ==
    LAdd([i \in 1..Len(a) |-> (a[i] * d) % Base],
         [i \in 1..(Len(a) + 1) |-> IF i = 1 THEN 0 ELSE (a[i - 1] * d) \div Base])
LShiftLimbs(a, w) ==
    IF a = <<>> THEN a ELSE [i \in 1..(Len(a) + w) |-> IF i <= w THEN 0 ELSE a[i - w]]
\* a times the limbs lo..hi of b
RECURSIVE LMulRange(_, _, _, _)
LMulRange(a, b, lo, hi) ==
    IF lo = hi THEN LShiftLimbs(LMulInt(a, b[lo]), lo - 1)
    ELSE LET mid == (lo + hi) \div 2
         IN  LAdd(LMulRange(a, b, lo, mid), LMulRange(a, b, mid + 1, hi))
LMul(a, b) == IF a = <<>> \/ b = <<>> THEN <<>> ELSE LMulRange(a, b, 1, Len(b))
\* Base^k modulo d for 0 <= k <= 7
LPowMod(k, d) ==
    LET p1 == Base % d
        p2 == (p1 * p1) % d
        p4 == (p2 * p2) % d
        f1 == IF k % 2 = 1 THEN p1 ELSE 1
        f2 == IF (k \div 2) % 2 = 1 THEN p2 ELSE 1
        f4 == IF (k \div 4) % 2 = 1 THEN p4 ELSE 1
    IN  ((((f1 * f2) % d) * f4) % d) % d
\* the number made of the limbs i and above of a, modulo d, for a below 2^120
LRemFrom(a, i, d) ==
    LET term(j) == (LLimb(a, i + j) * LPowMod(j, d)) % d
    IN  (term(0) + term(1) + term(2) + term(3) + term(4) + term(5) + term(6) + term(7)) % d
\* quotient and remainder of a below 2^120 by the integer 0 < d <= Base
LDiv(a, d) ==
    [q |-> LNorm([i \in 1..Len(a) |-> (LRemFrom(a, i + 1, d) * Base + a[i]) \div d]),
     r |-> LRemFrom(a, 1, d)]
\* a * 2^k, floor(a / 2^k), 2^k, the number of bits of a, a is odd
LShl(a, k) == LShiftLimbs(LMulInt(a, 2 ^ (k % 15)), k \div 15)
LShr(a, k) ==
    LET w == k \div 15
        sh == k % 15
    IN  IF w >= Len(a) THEN <<>>
        ELSE LNorm([i \in 1..(Len(a) - w) |->
                      (a[i + w] \div 2 ^ sh) + (LLimb(a, i + w + 1) % 2 ^ sh) * 2 ^ (15 - sh)])
LPow2(k) == [i \in 1..(k \div 15 + 1) |-> IF i <= k \div 15 THEN 0 ELSE 2 ^ (k % 15)]
LBits(a) ==
    IF a = <<>> THEN 0
    ELSE 15 * (Len(a) - 1)
             + (CHOOSE k \in 1..15 : 2 ^ (k - 1) <= a[Len(a)] /\ a[Len(a)] < 2 ^ k)
LOdd(a) == a # <<>> /\ a[1] % 2 = 1
\* floor of the square root of n and what is left of n, bit pair by bit pair
\* from the pair at bit k down
LSqrtStep(st) ==
    LET trial == LAdd(st.root, LPow2(st.k))
    IN  IF LCmp(st.rem, trial) >= 0
        THEN [root |-> LAdd(LShr(st.root, 1), LPow2(st.k)), rem |-> LSub(st.rem, trial),
              k |-> st.k - 2]
        ELSE [root |-> LShr(st.root, 1), rem |-> st.rem, k |-> st.k - 2]
\* count bit pairs, or those that are left
RECURSIVE LSqrtSteps(_, _)
LSqrtSteps(st, count) ==
    IF count = 0 \/ st.k < 0 THEN st ELSE LSqrtSteps(LSqrtStep(st), count - 1)
LSqrtFrom(n, bits) ==
    LSqrtSteps(LSqrtSteps(LSqrtSteps(LSqrtSteps(
        [root |-> <<>>, rem |-> n, k |-> 2 * ((bits - 1) \div 2)], 14), 14), 14), 14)
\* for 0 < n < 2^112
LSqrt(n) == LSqrtFrom(n, LBits(n))

\* A double >= 0 is m * 2^e with a significand m of 53 bits, or 0.
FZero == [m |-> <<>>, e |-> 0]
\* q + 1 when q is rounded up, and the exponent one up when that makes 54 bits
FCarry(q, e) == IF LBits(q) = 54 THEN [m |-> LShr(q, 1), e |-> e + 1] ELSE [m |-> q, e |-> e]
\* q = floor(n / 2^sh) goes up when the sh bits cut off are above one half, or
\* are one half and either more follows (inexact) or q is odd
FRoundsUp(half, inexact, q) == half > 0 \/ (half = 0 /\ (inexact \/ LOdd(q)))
FRoundCut(n, e, inexact, sh, q) ==
    IF FRoundsUp(LCmp(LSub(n, LShl(q, sh)), LPow2(sh - 1)), inexact, q)
    THEN FCarry(LAdd(q, <<1>>), e)
    ELSE [m |-> q, e |-> e]
FRoundBits(n, e, inexact, len) ==
    IF len <= 53 THEN [m |-> LShl(n, 53 - len), e |-> e - (53 - len)]
    ELSE FRoundCut(n, e + (len - 53), inexact, len - 53, LShr(n, len - 53))
\* the double nearest to n * 2^e, ties to the even significand; inexact says
\* that the exact value is a little above n * 2^e (n then has 55 bits or more)
FRound(n, e, inexact) == IF n = <<>> THEN FZero ELSE FRoundBits(n, e, inexact, LBits(n))
FFromInt(n) == FRound(LFromInt(n), 0, FALSE)
\* the significands of x and y over the exponent e, the smaller of the two
FAlignTo(x, y, e) == [x |-> LShl(x.m, x.e - e), y |-> LShl(y.m, y.e - e), e |-> e]
FAlign(x, y) == FAlignTo(x, y, IF x.e <= y.e THEN x.e ELSE y.e)
FCmpAligned(a) == LCmp(a.x, a.y)
FCmp(x, y) == IF x.e = y.e THEN LCmp(x.m, y.m) ELSE FCmpAligned(FAlign(x, y))
\* x + y, |x - y|, x * y, x / d for an integer 0 < d <= Base, and Math.sqrt(n)
\* for an integer n
FAddAligned(a) == FRound(LAdd(a.x, a.y), a.e, FALSE)
FAdd(x, y) ==
    IF x.m = <<>> THEN y
    ELSE IF y.m = <<>> THEN x
    ELSE FAddAligned(FAlign(x, y))
FAbsSubAligned(a) ==
    FRound(IF LCmp(a.x, a.y) >= 0 THEN LSub(a.x, a.y) ELSE LSub(a.y, a.x), a.e, FALSE)
FAbsSub(x, y) ==
    IF x.m = <<>> THEN y
    ELSE IF y.m = <<>> THEN x
    ELSE FAbsSubAligned(FAlign(x, y))
FMul(x, y) ==
    IF x.m = <<>> \/ y.m = <<>> THEN FZero ELSE FRound(LMul(x.m, y.m), x.e + y.e, FALSE)
FDivRound(qr, e) == FRound(qr.q, e, qr.r # 0)
FDivInt(x, d) == IF x.m = <<>> THEN FZero ELSE FDivRound(LDiv(LShl(x.m, 30), d), x.e - 30)
FSqrtRound(sr, k) == FRound(sr.root, 0 - k, sr.rem # <<>>)
FSqrtShifted(b, k) == FSqrtRound(LSqrt(LShl(b, 2 * k)), k)
FSqrtFrom(b) == FSqrtShifted(b, (110 - LBits(b)) \div 2)
FSqrtInt(n) == IF n = 0 THEN FZero ELSE FSqrtFrom(LFromInt(n))

(* ------------------------- exact numbers with roots -------------------- *)
\* floor of the square root of n
ISqrt(n) == CHOOSE k \in 0..n : k * k <= n /\ (k + 1) * (k + 1) > n

\* the integer i, and Math.sqrt(n) for an integer n >= 0
NumInt(i) == [q \in (IF i = 0 THEN {} ELSE {1}) |-> i]
NumSqrt(n) == LET k == ISqrt(n) IN IF k * k = n THEN NumInt(k) ELSE [q \in {n} |-> 1]

NumCoef(x, q) == IF q \in DOMAIN x THEN x[q] ELSE 0
NumAdd(x, y) ==
    LET f == [q \in (DOMAIN x) \cup (DOMAIN y) |-> NumCoef(x, q) + NumCoef(y, q)]
    IN  [q \in {r \in DOMAIN f : f[r] # 0} |-> f[q]]
NumNeg(x) == [q \in DOMAIN x |-> 0 - x[q]]
NumSub(x, y) == NumAdd(x, NumNeg(y))

\* c * c * q for the root term c * sqrt(q) of x, q > 1, and 0 without one
NumRootSq(x) ==
    LET irr == (DOMAIN x) \ {1}
    IN  IF irr = {} THEN 0
        ELSE LET q == CHOOSE r \in irr : TRUE IN x[q] * x[q] * q

\* The sign (-1, 0, 1) of m * sqrt(d) - (n * sqrt(s) + k) for integers
\* m, n, k, d, s >= 0, decided exactly: squared, the comparison is of
\* L = m*m*d - n*n*s - k*k with c * sqrt(s), c = 2*k*n, and L = c * quot + rem is
\* compared with c * (r + fraction) for r = floor(sqrt(s)).  The last step
\* compares 2*r*rem*c + rem*rem with (s - r*r)*c*c, in limbs when the products
\* do not fit 32 bits.
RootFine(r, rem, c, s) ==
    IF c <= 46340 /\ c * c <= 2147483647 \div (2 * r + 1)
    THEN LET lhs == 2 * r * rem * c + rem * rem
             rhs == (s - r * r) * c * c
         IN  IF lhs > rhs THEN 1 ELSE IF lhs = rhs THEN 0 ELSE -1
    ELSE LET lc == LFromInt(c)
             lrem == LFromInt(rem)
         IN  LCmp(LAdd(LMul(LMul(LFromInt(2 * r), lrem), lc), LMul(lrem, lrem)),
                  LMul(LMul(LFromInt(s - r * r), lc), lc))
RootCmp(m, d, n, s, k) ==
    LET L == m * m * d - n * n * s - k * k
        c == 2 * k * n
        r == ISqrt(s)
        quot == L \div c
        rem == L % c
    IN  IF c = 0 \/ L < 0 THEN (IF L > 0 THEN 1 ELSE IF L = 0 THEN 0 ELSE -1)
        ELSE IF quot > r THEN 1
        ELSE IF quot < r THEN -1
        ELSE RootFine(r, rem, c, s)
RootGt(m, d, n, s, k) == RootCmp(m, d, n, s, k) > 0
RootGeq(m, d, n, s, k) == RootCmp(m, d, n, s, k) >= 0

\* n <= y and y <= n for an integer n and y = a + c * sqrt(q)
LeqIntNum(n, y) ==
    LET irr == (DOMAIN y) \ {1}
        L == n - NumCoef(y, 1)
    IN  IF irr = {} THEN L <= 0
        ELSE LET q == CHOOSE r \in irr : TRUE
                 c == y[q]
             IN  IF c > 0 THEN L <= 0 \/ L * L <= c * c * q
                          ELSE L <= 0 /\ L * L >= c * c * q
LeqNumInt(y, n) == LeqIntNum(0 - n, NumNeg(y))

\* sqrt(s1) + a1 <= sqrt(s2) + a2
RadLeq(s1, a1, s2, a2) ==
    LET k == a2 - a1
    IN  IF k >= 0
        THEN LET L == s1 - s2 - k * k IN L <= 0 \/ L * L <= 4 * k * k * s2
        ELSE LET L == s2 - s1 - k * k IN L >= 0 /\ 4 * k * k * s1 <= L * L

(* ------------------------------- vectors ------------------------------- *)
v3squaredDistance(a, b) ==
    (a[1] - b[1]) * (a[1] - b[1]) + (a[2] - b[2]) * (a[2] - b[2])
        + (a[3] - b[3]) * (a[3] - b[3])

v3add(a, b) == <<a[1] + b[1], a[2] + b[2], a[3] + b[3]>>

(* --------------------------- the point sets ---------------------------- *)
BasePoints == {<<2 * Scale, 0, 0>>, <<0 - 2 * Scale, 0, 0>>, <<0, 4, 0>>}
Radii == {0, 2}
\* displacements of a point between the fit and the re-validation
Deltas == {<<0, 0, 0>>, <<2, 0, 0>>, <<-2, 0, 0>>, <<4, 0, 0>>, <<-4, 0, 0>>,
           <<0, 2, 0>>, <<0, 6, 0>>, <<2, 2, 0>>}

PointSets(radii) ==
    UNION {[1..n -> [pos : BasePoints, radius : radii]] : n \in 1..MaxPoints}

Moved(d) ==
    {[i \in 1..Len(d) |-> [d[i] EXCEPT !.pos = v3add(@, m[i])]] : m \in [1..Len(d) -> Deltas]}

radiusOfNone(d, i) == 0
\* (radius && radius[i]) || 0
radiusOf(d, i) == IF hasRadius THEN d[i].radius ELSE 0

(* ---------------------------- BoundaryHelper --------------------------- *)
getBoundaryHelper(count) == IF count > 10000 THEN "coarse" ELSE "fine"

FreshHelper == [included |-> <<>>, center |-> <<0, 0, 0>>,
                maxRadius |-> [sq |-> 0, add |-> 0]]

\* boundaryHelper.reset(): whatever an earlier fit left in the helper is dropped
helperResetKeeps(h) == h
helperReset(h) == FreshHelper

helperIncludePositionRadius(h, pos, r) ==
    [h EXCEPT !.included = Append(@, [pos |-> pos, radius |-> r])]

\* the minimum and maximum of nothing are Infinity and -Infinity: an empty box
MinOf(S) == IF S = {} THEN Infinity ELSE CHOOSE x \in S : \A y \in S : x <= y
MaxOf(S) == IF S = {} THEN 0 - Infinity ELSE CHOOSE x \in S : \A y \in S : x >= y

\* the candidate box: every included sphere, axis by axis
helperBoxMin(h) ==
    [k \in 1..3 |-> MinOf({h.included[i].pos[k] - h.included[i].radius :
                             i \in 1..Len(h.included)})]
helperBoxMax(h) ==
    [k \in 1..3 |-> MaxOf({h.included[i].pos[k] + h.included[i].radius :
                             i \in 1..Len(h.included)})]

\* the candidate centre is left open: the centre of the candidate box or the
\* position of an included point
CandidateCenters(h) ==
    IF h.included = <<>> THEN {<<0, 0, 0>>}
    ELSE {[k \in 1..3 |-> (helperBoxMin(h)[k] + helperBoxMax(h)[k]) \div 2]}
             \cup {h.included[i].pos : i \in 1..Len(h.included)}

\* the fitted radius is the largest distance + radius seen in the refine phase
helperRadiusPositionRadius(h, pos, r) ==
    LET d == v3squaredDistance(pos, h.center)
    IN  IF ~RadLeq(d, r, h.maxRadius.sq, h.maxRadius.add)
        THEN [h EXCEPT !.maxRadius = [sq |-> d, add |-> r]] ELSE h

\* extrema the helper reports: the points of the included spheres that reach the
\* faces of the candidate box (the axis directions of its direction set)
helperExtrema(h) ==
    LET lo(k) == CHOOSE i \in 1..Len(h.included) :
                     h.included[i].pos[k] - h.included[i].radius = helperBoxMin(h)[k]
        hi(k) == CHOOSE i \in 1..Len(h.included) :
                     h.included[i].pos[k] + h.included[i].radius = helperBoxMax(h)[k]
        at(i, k, sg) == [h.included[i].pos EXCEPT ![k] = @ + sg * h.included[i].radius]
    IN  IF h.included = <<>> THEN <<>>
        ELSE <<at(lo(1), 1, -1), at(hi(1), 1, 1), at(lo(2), 2, -1), at(hi(2), 2, 1),
               at(lo(3), 3, -1), at(hi(3), 3, 1)>>

helperGetSphere(h) ==
    [center |-> h.center,
     radius |-> NumAdd(NumSqrt(h.maxRadius.sq), NumInt(h.maxRadius.add)),
     hasExtrema |-> tracksExtrema,
     extrema |-> IF tracksExtrema THEN helperExtrema(h) ELSE <<>>]

helperGetBox(h) ==
    [min |-> [k \in 1..3 |-> NumInt(helperBoxMin(h)[k])],
     max |-> [k \in 1..3 |-> NumInt(helperBoxMax(h)[k])]]

NoBoundary ==
    [box |-> [min |-> [k \in 1..3 |-> NumInt(0)], max |-> [k \in 1..3 |-> NumInt(0)]],
     sphere |-> [center |-> <<0, 0, 0>>, radius |-> NumInt(0), hasExtrema |-> FALSE,
                 extrema |-> <<>>]]

NoOther == [pc |-> "off", data |-> <<>>, t |-> 0, boundary |-> NoBoundary]

\* what a call of tryAdjustBoundary gave back: undefined or a boundary; same
\* says that the boundary is the object that was passed in, and sphereObject
\* and boxObject name the objects its sphere and box are
NoResult == [kind |-> "none", same |-> FALSE, boundary |-> NoBoundary,
             sphereObject |-> "none", boxObject |-> "none"]

(* ------------------------------ getBoundary ---------------------------- *)
Helper == getBoundaryHelper(Len(data))

\* getBoundary is called: up to boundaryHelper.reset()
getBoundary ==
    /\ bpc = "call"
    /\ fits' = fits + 1
    /\ helpers' = [helpers EXCEPT ![Helper] = helperReset(@)]
    /\ t' = 0
    /\ bpc' = "include"
    /\ UNCHANGED <<data, hasRadius, tracksExtrema, p, extremPoint, boundary, result>>
    /\ UNCHANGED <<gpuVars, codec, other, extVars>>

\* one iteration of the first loop
includePositionRadius ==
    /\ bpc = "include"
    /\ t < Len(data)
    /\ p' = data[t + 1].pos
    /\ helpers' = [helpers EXCEPT ![Helper] =
           helperIncludePositionRadius(@, data[t + 1].pos, radiusOf(data, t + 1))]
    /\ t' = t + 1
    /\ UNCHANGED <<bpc, fits, data, hasRadius, tracksExtrema, extremPoint, boundary, result>>
    /\ UNCHANGED <<gpuVars, codec, other, extVars>>

\* boundaryHelper.finishedIncludeStep()
finishedIncludeStep ==
    /\ bpc = "include"
    /\ t >= Len(data)
    /\ \E c \in CandidateCenters(helpers[Helper]) :
           helpers' = [helpers EXCEPT ![Helper].center = c]
    /\ t' = 0
    /\ bpc' = "radius"
    /\ UNCHANGED <<fits, data, hasRadius, tracksExtrema, p, extremPoint, boundary, result>>
    /\ UNCHANGED <<gpuVars, codec, other, extVars>>

\* one iteration of the second loop
radiusPositionRadius ==
    /\ bpc = "radius"
    /\ t < Len(data)
    /\ p' = data[t + 1].pos
    /\ helpers' = [helpers EXCEPT ![Helper] =
           helperRadiusPositionRadius(@, data[t + 1].pos, radiusOf(data, t + 1))]
    /\ t' = t + 1
    /\ UNCHANGED <<bpc, fits, data, hasRadius, tracksExtrema, extremPoint, boundary, result>>
    /\ UNCHANGED <<gpuVars, codec, other, extVars>>

\* lines 49-60: the sphere of the helper, with the points themselves as extrema
\* for a radius-free point set of no more points than the helper reports
\* extrema, and the box of the helper
fittedBoundary(h, d) ==
    LET sphere == helperGetSphere(h)
        n == Len(d)
        own == ~hasRadius /\ sphere.hasExtrema /\ n <= Len(sphere.extrema)
    IN  [box |-> helperGetBox(h),
         sphere |-> IF own
                    THEN [sphere EXCEPT !.extrema = [i \in 1..n |-> d[i].pos]]
                    ELSE sphere]

\* getSphere, the extrema of a radius-free point set, getBox, return
getBoundaryReturn ==
    /\ bpc = "radius"
    /\ t >= Len(data)
    /\ boundary' = fittedBoundary(helpers[Helper], data)
    /\ bpc' = "fitted"
    /\ UNCHANGED <<fits, data, hasRadius, tracksExtrema, helpers, t, p, extremPoint, result>>
    /\ UNCHANGED <<gpuVars, codec, other, extVars>>

(* -------------------------------- Init --------------------------------- *)
\* nothing has been fitted and no fit is under way
BoundaryFresh ==
    /\ fits = 0
    /\ helpers = [h \in {"coarse", "fine"} |-> FreshHelper]
    /\ t = 0
    /\ p = <<0, 0, 0>>
    /\ extremPoint = <<0, 0, 0>>
    /\ boundary = NoBoundary
    /\ result = NoResult

\* the state of the density pipeline before its first invocation
\* no DirectVolume has been created
NoVolume == [created |-> FALSE]

\* no link builder is running
NoLinks == [pc |-> "off"]

\* no StructureHierarchyManager is modelled
NoHierarchy == [pc |-> "off"]

ExtFresh ==
    /\ directVolume = NoVolume
    /\ links = NoLinks
    /\ hierarchy = NoHierarchy

GpuFresh ==
    /\ calls = 0
    /\ entry = "GaussianDensityGPU"
    /\ dim = <<1, 1, 1>>
    /\ lay = getTexture2dSize(<<1, 1, 1>>)
    /\ gridTexDim = <<1, 1, 0>>
    /\ texture = "texture"
    /\ textures = [id \in TexIds |-> NoTexture]
    /\ tmpFramebuffer = FALSE
    /\ renderable = NoRenderable
    /\ glstate = GlDefaults
    /\ pass = 1
    /\ cursor = NoCursor
    /\ batches = <<>>
    /\ drawnAt = <<>>
    /\ ex = NoEx
    /\ readAt = <<>>
    /\ instances = NoInstances
    /\ image = [id \in TexIds |-> <<>>]
    /\ readback = NoReadback
    /\ allocs = [r \in Resources |-> 0]

Init ==
    /\ ExtFresh
    /\ other = NoOther
    /\ codec = NoCodec
    /\ blendMinMax \in BOOLEAN
    /\ pc = "idle"
    /\ position = <<[cell |-> "first"], [cell |-> "last"]>>
    /\ GpuFresh
    /\ bpc = "off"
    /\ data = <<>>
    /\ hasRadius = FALSE
    /\ tracksExtrema = FALSE
    /\ BoundaryFresh

(* ------------------- calcGaussianDensityTexture2d / 3d ----------------- *)
\* GaussianDensityGPU (lines 63-66, arg = "_tmpTexture") or GaussianDensityTexture2d
\* (line 81, arg = the oldTexture or none) calling calcGaussianDensityTexture2d,
\* up to the first setup*Rendering call
calcGaussianDensityTexture2d(e, d, arg) ==
    /\ pc \in {"idle", "thrown"}
    /\ calls < MaxCalls
    /\ (e = "GaussianDensityGPU") = (arg = "_tmpTexture")
    /\ arg = "texture" => textures["texture"].created
    /\ calls' = calls + 1
    /\ entry' = e
    /\ dim' = d
    /\ LET l == getTexture2dSize(d)
           out == IF arg = NoArgument THEN "texture" ELSE arg
           \* the texture object handed in; a new one when there is none
           given == IF arg = NoArgument THEN NoTexture ELSE textures[arg]
           defOut == defines2d(given, l.texDimX, l.texDimY)
           defMin == defines2d(textures["_minDistanceTexture2d"], l.texDimX, l.texDimY)
       IN  /\ lay' = l
           /\ gridTexDim' = <<l.texDimX, l.texDimY, 0>>
           /\ texture' = out
           /\ textures' = [textures EXCEPT
                  !["_minDistanceTexture2d"] =
                      IF defMin THEN defineTexture(l.texDimX, l.texDimY, 0) ELSE @,
                  ![out] = IF defOut THEN defineTexture(l.texDimX, l.texDimY, 0) ELSE given]
           /\ image' = [image EXCEPT
                  !["_minDistanceTexture2d"] =
                      definePixels(@, defMin, l.texDimX, l.texDimY, 0, FALSE),
                  ![out] = definePixels(@, defOut, l.texDimX, l.texDimY, 0, FALSE)]
    /\ instances' = prepareGaussianDensityData(position)
    /\ readback' = NoReadback
    /\ renderable' = getGaussianDensityRenderable("_minDistanceTexture2d",
                                                  textures'["_minDistanceTexture2d"].d)
    /\ tmpFramebuffer' = TRUE
    /\ allocs' =
           LET a1 == IF arg = "_tmpTexture"
                     THEN createdIfMissing(allocs, "_tmpTexture",
                                           textures["_tmpTexture"].created)
                     ELSE allocs
               a2 == createdIfMissing(a1, "_minDistanceTexture2d",
                                      textures["_minDistanceTexture2d"].created)
               a3 == createdIfMissing(a2, "_GaussianDensityRenderable", renderable.created)
               a4 == createdIfMissing(a3, "_tmpFramebuffer", tmpFramebuffer)
           IN  createdIfMissing(a4, "texture", arg # NoArgument)
    /\ pass' = 1
    /\ cursor' = NoCursor
    /\ batches' = <<>>
    /\ drawnAt' = <<>>
    /\ ex' = NoEx
    /\ readAt' = <<>>
    /\ pc' = "setup"
    /\ UNCHANGED <<blendMinMax, glstate, position>>
    /\ UNCHANGED <<bndVars, codec, extVars>>

\* GaussianDensityTexture3d (line 85) calling calcGaussianDensityTexture3d with the
\* oldTexture of the caller or none
calcGaussianDensityTexture3d(d, arg) ==
    /\ pc \in {"idle", "thrown"}
    /\ calls < MaxCalls
    /\ arg \in {NoArgument, "texture"}
    /\ arg = "texture" => textures["texture"].created
    /\ calls' = calls + 1
    /\ entry' = "GaussianDensityTexture3d"
    /\ dim' = d
    /\ lay' = lay
    /\ gridTexDim' = d
    /\ texture' = "texture"
    /\ LET given == IF arg = NoArgument THEN NoTexture ELSE textures[arg]
           defOut == defines3d(given, d[1], d[2], d[3])
           defMin == defines3d(textures["_minDistanceTexture3d"], d[1], d[2], d[3])
       IN  /\ textures' = [textures EXCEPT
                  !["_minDistanceTexture3d"] =
                      IF defMin THEN defineTexture(d[1], d[2], d[3]) ELSE @,
                  !["texture"] = IF defOut THEN defineTexture(d[1], d[2], d[3]) ELSE given]
           /\ image' = [image EXCEPT
                  !["_minDistanceTexture3d"] =
                      definePixels(@, defMin, d[1], d[2], d[3], TRUE),
                  !["texture"] = definePixels(@, defOut, d[1], d[2], d[3], TRUE)]
    /\ instances' = prepareGaussianDensityData(position)
    /\ readback' = NoReadback
    /\ renderable' = getGaussianDensityRenderable("_minDistanceTexture3d",
                                                  textures'["_minDistanceTexture3d"].d)
    /\ allocs' =
           LET a1 == createdIfMissing(allocs, "_minDistanceTexture3d",
                                      textures["_minDistanceTexture3d"].created)
               a2 == createdIfMissing(a1, "_GaussianDensityRenderable", renderable.created)
               a3 == createdAnew(a2, "framebuffer")
           IN  createdIfMissing(a3, "texture", arg # NoArgument)
    /\ glstate' = [glstate EXCEPT !.viewport = <<0, 0, d[1], d[2]>>]
    /\ pass' = 1
    /\ cursor' = NoCursor
    /\ batches' = <<>>
    /\ drawnAt' = <<>>
    /\ ex' = NoEx
    /\ readAt' = <<>>
    /\ pc' = "setup"
    /\ UNCHANGED <<blendMinMax, tmpFramebuffer, position>>
    /\ UNCHANGED <<bndVars, codec, extVars>>

(* --------------------------- setup*Rendering --------------------------- *)
setupDensityRendering ==
    /\ pc = "setup"
    /\ PassOrder[pass] = "density"
    /\ renderable' = [renderable EXCEPT !.dCalcType = "density"]
    /\ glstate' = [glstate EXCEPT !.colorMask = <<FALSE, FALSE, FALSE, TRUE>>,
                                  !.blendFunc = <<"ONE", "ONE">>,
                                  !.blendEquation = "FUNC_ADD"]
    /\ pc' = "render"
    /\ UNCHANGED <<blendMinMax, calls, entry, dim, lay, gridTexDim, texture, textures,
                   tmpFramebuffer, pass, cursor, batches, drawnAt, ex, readAt>>
    /\ UNCHANGED pixVars
    /\ UNCHANGED allocs
    /\ UNCHANGED <<bndVars, codec, extVars>>

setupMinDistanceRenderingLenient ==
    /\ pc = "setup"
    /\ PassOrder[pass] = "minDistance"
    /\ renderable' = [renderable EXCEPT !.dCalcType = "minDistance"]
    /\ glstate' = [glstate EXCEPT !.colorMask = <<FALSE, FALSE, FALSE, TRUE>>,
                                  !.blendFunc = <<"ONE", "ONE">>,
                                  !.blendEquation = IF blendMinMax THEN "MAX" ELSE @]
    /\ pc' = "render"
    /\ UNCHANGED <<blendMinMax, calls, entry, dim, lay, gridTexDim, texture, textures,
                   tmpFramebuffer, pass, cursor, batches, drawnAt, ex, readAt>>
    /\ UNCHANGED pixVars
    /\ UNCHANGED allocs
    /\ UNCHANGED <<bndVars, codec, extVars>>

setupMinDistanceRendering ==
    /\ pc = "setup"
    /\ PassOrder[pass] = "minDistance"
    /\ renderable' = [renderable EXCEPT !.dCalcType = "minDistance"]
    /\ IF blendMinMax
       THEN /\ glstate' = [glstate EXCEPT !.colorMask = <<FALSE, FALSE, FALSE, TRUE>>,
                                          !.blendFunc = <<"ONE", "ONE">>,
                                          !.blendEquation = "MAX"]
            /\ pc' = "render"
       ELSE \* throw new Error('GPU gaussian surface calculation requires EXT_blend_minmax')
            /\ glstate' = [glstate EXCEPT !.colorMask = <<FALSE, FALSE, FALSE, TRUE>>,
                                          !.blendFunc = <<"ONE", "ONE">>]
            /\ pc' = "thrown"
    /\ UNCHANGED <<blendMinMax, calls, entry, dim, lay, gridTexDim, texture, textures,
                   tmpFramebuffer, pass, cursor, batches, drawnAt, ex, readAt>>
    /\ UNCHANGED pixVars
    /\ UNCHANGED allocs
    /\ UNCHANGED <<bndVars, codec, extVars>>

setupGroupIdRenderingAllChannels ==
    /\ pc = "setup"
    /\ PassOrder[pass] = "groupId"
    /\ renderable' = [renderable EXCEPT !.dCalcType = "groupId"]
    /\ glstate' = [glstate EXCEPT !.colorMask = <<TRUE, TRUE, TRUE, TRUE>>,
                                  !.blendFunc = <<"ONE", "ZERO">>,
                                  !.blendEquation = "FUNC_ADD"]
    /\ pc' = "render"
    /\ UNCHANGED <<blendMinMax, calls, entry, dim, lay, gridTexDim, texture, textures,
                   tmpFramebuffer, pass, cursor, batches, drawnAt, ex, readAt>>
    /\ UNCHANGED pixVars
    /\ UNCHANGED allocs
    /\ UNCHANGED <<bndVars, codec, extVars>>

setupGroupIdRendering ==
    /\ pc = "setup"
    /\ PassOrder[pass] = "groupId"
    /\ renderable' = [renderable EXCEPT !.dCalcType = "groupId"]
    /\ glstate' = [glstate EXCEPT !.colorMask = <<TRUE, TRUE, TRUE, FALSE>>,
                                  !.blendFunc = <<"ONE", "ZERO">>,
                                  !.blendEquation = "FUNC_ADD"]
    /\ pc' = "render"
    /\ UNCHANGED <<blendMinMax, calls, entry, dim, lay, gridTexDim, texture, textures,
                   tmpFramebuffer, pass, cursor, batches, drawnAt, ex, readAt>>
    /\ UNCHANGED pixVars
    /\ UNCHANGED allocs
    /\ UNCHANGED <<bndVars, codec, extVars>>

(* ------------------------------- render -------------------------------- *)
\* entering render(fbTex, clear): the statements before the slice loop. The 2D
\* render() attaches fbTex and clears it here; the 3D render() attaches and
\* clears inside the loop, so its batch has no attachment before the first slice
render ==
    /\ pc = "render"
    /\ cursor' = NoCursor
    /\ batches' = Append(batches,
           IF Path = "2d"
           THEN [type |-> renderable.dCalcType,
                 fbTex |-> RenderTarget(PassOrder[pass], Path),
                 clear |-> RenderClear(PassOrder[pass]),
                 draws |-> 0, finished |-> FALSE]
           ELSE [type |-> renderable.dCalcType, draws |-> 0, finished |-> FALSE])
    /\ drawnAt' = <<>>
    /\ LET fbTex == RenderTarget(PassOrder[pass], Path)
       IN  \* the 2D render() clears the attached texture once, before the loop
           image' = IF Path = "2d" /\ RenderClear(PassOrder[pass])
                    THEN [image EXCEPT ![fbTex] = clearPixels(@, glstate, 0)]
                    ELSE image
    /\ pc' = "slice"
    /\ UNCHANGED <<blendMinMax, calls, entry, dim, lay, gridTexDim, texture, textures,
                   tmpFramebuffer, renderable, glstate, pass, ex, readAt>>
    /\ UNCHANGED <<position, instances, readback>>
    /\ UNCHANGED allocs
    /\ UNCHANGED <<bndVars, codec, extVars>>

countDraw(bs) == [bs EXCEPT ![Len(bs)].draws = @ + 1]

\* one iteration of the slice loop of the 2D render()
renderSlice2d ==
    /\ pc = "slice"
    /\ Path = "2d"
    /\ cursor.i < dim[3]
    /\ LET wrap == cursor.currCol >= lay.texCols
           currCol == IF wrap THEN cursor.currCol - lay.texCols ELSE cursor.currCol
           currY == IF wrap THEN cursor.currY + dim[2] ELSE cursor.currY
           currX == IF wrap THEN 0 ELSE cursor.currX
       IN  /\ renderable' = [renderable EXCEPT
                  !.uCurrentY = IF wrap THEN currY ELSE @,
                  !.uCurrentX = currX,
                  !.uCurrentSlice = cursor.i]
           /\ glstate' = [glstate EXCEPT !.viewport = <<currX, currY, dim[1], dim[2]>>]
           /\ drawnAt' = Append(drawnAt, <<currX, currY>>)
           /\ cursor' = [i |-> cursor.i + 1, currCol |-> currCol + 1,
                         currX |-> currX + dim[1], currY |-> currY]
           /\ image' = [image EXCEPT ![batches[Len(batches)].fbTex] =
                  drawInstances(@, 1, instances, renderable.dCalcType, glstate,
                                <<currX, currY, 0>>, cursor.i, dim)]
    /\ batches' = countDraw(batches)
    /\ UNCHANGED <<blendMinMax, calls, pc, entry, dim, lay, gridTexDim, texture, textures,
                   tmpFramebuffer, pass, ex, readAt>>
    /\ UNCHANGED <<position, instances, readback>>
    /\ UNCHANGED allocs
    /\ UNCHANGED <<bndVars, codec, extVars>>

\* one iteration of the slice loop of the 3D render()
renderSlice3d ==
    /\ pc = "slice"
    /\ Path = "3d"
    /\ cursor.i < dim[3]
    /\ renderable' = [renderable EXCEPT !.uCurrentSlice = cursor.i]
    /\ drawnAt' = Append(drawnAt, <<0, 0>>)
    /\ cursor' = [cursor EXCEPT !.i = @ + 1]
    \* layer i of fbTex is attached, cleared when the pass clears, and drawn into
    /\ LET b == batches[Len(batches)]
           fbTex == RenderTarget(PassOrder[pass], Path)
           clear == RenderClear(PassOrder[pass])
           cleared == IF clear THEN clearPixels(image[fbTex], glstate, cursor.i)
                      ELSE image[fbTex]
       IN  /\ batches' = [batches EXCEPT ![Len(batches)] =
                  [type |-> b.type, fbTex |-> fbTex, clear |-> clear,
                   draws |-> b.draws + 1, finished |-> b.finished]]
           /\ image' = [image EXCEPT ![fbTex] =
                  drawInstances(cleared, 1, instances, renderable.dCalcType, glstate,
                                <<0, 0, cursor.i>>, cursor.i, dim)]
    /\ UNCHANGED <<blendMinMax, calls, pc, entry, dim, lay, gridTexDim, texture, textures,
                   tmpFramebuffer, glstate, pass, ex, readAt>>
    /\ UNCHANGED <<position, instances, readback>>
    /\ UNCHANGED allocs
    /\ UNCHANGED <<bndVars, codec, extVars>>

renderFinishWithoutFinish ==
    /\ pc = "slice"
    /\ cursor.i >= dim[3]
    /\ batches' = batches
    /\ IF pass < Len(PassOrder)
       THEN pass' = pass + 1 /\ pc' = "setup"
       ELSE pass' = pass /\ pc' = "return"
    /\ UNCHANGED <<blendMinMax, calls, entry, dim, lay, gridTexDim, texture, textures,
                   tmpFramebuffer, renderable, glstate, cursor, drawnAt, ex, readAt>>
    /\ UNCHANGED pixVars
    /\ UNCHANGED allocs
    /\ UNCHANGED <<bndVars, codec, extVars>>

renderFinishDropsInstances ==
    /\ pc = "slice"
    /\ cursor.i >= dim[3]
    /\ batches' = [batches EXCEPT ![Len(batches)].finished = TRUE]
    /\ IF pass < Len(PassOrder)
       THEN pass' = pass + 1 /\ pc' = "setup"
       ELSE pass' = pass /\ pc' = "return"
    /\ instances' = NoInstances
    /\ UNCHANGED <<blendMinMax, calls, entry, dim, lay, gridTexDim, texture, textures,
                   tmpFramebuffer, renderable, glstate, cursor, drawnAt, ex, readAt>>
    /\ UNCHANGED <<position, image, readback>>
    /\ UNCHANGED allocs
    /\ UNCHANGED <<bndVars, codec, extVars>>

\* the loop is over: gl.finish(), and on to the next setup*Rendering or the return
renderFinish ==
    /\ pc = "slice"
    /\ cursor.i >= dim[3]
    /\ batches' = [batches EXCEPT ![Len(batches)].finished = TRUE]
    /\ IF pass < Len(PassOrder)
       THEN pass' = pass + 1 /\ pc' = "setup"
       ELSE pass' = pass /\ pc' = "return"
    /\ UNCHANGED <<blendMinMax, calls, entry, dim, lay, gridTexDim, texture, textures,
                   tmpFramebuffer, renderable, glstate, cursor, drawnAt, ex, readAt>>
    /\ UNCHANGED pixVars
    /\ UNCHANGED allocs
    /\ UNCHANGED <<bndVars, codec, extVars>>

\* calcGaussianDensityTexture2d/3d returns; GaussianDensityGPU goes on to the readback
returnTextureData ==
    /\ pc = "return"
    /\ pc' = IF entry = "GaussianDensityGPU" THEN "field" ELSE "idle"
    /\ UNCHANGED <<blendMinMax, calls, entry, dim, lay, gridTexDim, texture, textures,
                   tmpFramebuffer, renderable, glstate, pass, cursor, batches, drawnAt,
                   ex, readAt>>
    /\ UNCHANGED pixVars
    /\ UNCHANGED allocs
    /\ UNCHANGED <<bndVars, codec, extVars>>

(* -------------------------- fieldFromTexture2d ------------------------- *)
\* Math.floor(width / dx); the width of a grid with dx = 0 is 0, and 0 / 0 is NaN
fboTexCols(width, dx) == IF dx = 0 THEN NaN ELSE width \div dx

\* the tile <<tmpCol, tmpRow>> of the next slice: the wrap test at the head of the
\* iz loop (tmpCol >= fboTexCols: tmpCol = 0, tmpRow += dy)
nextTileRowPlusOne(tmpCol, tmpRow, cols, dy) ==
    IF cols # NaN /\ tmpCol >= cols THEN <<0, tmpRow + 1>> ELSE <<tmpCol, tmpRow>>
nextTile(tmpCol, tmpRow, cols, dy) ==
    IF cols # NaN /\ tmpCol >= cols THEN <<0, tmpRow + dy>> ELSE <<tmpCol, tmpRow>>

\* length of new Uint8Array(width * height * 4): 0 * Infinity is NaN, and a
\* typed array of length NaN has length 0
Uint8ArrayLength(width, height) ==
    LET n == JsMul(JsMul(width, height), 4) IN IF n = NaN THEN 0 ELSE n

\* the statements of fieldFromTexture2d before the slice loop, readPixels included
fieldFromTexture2d ==
    /\ pc = "field"
    /\ ex' = [iz |-> 0, tmpCol |-> 0, tmpRow |-> 0,
              fboTexCols |-> fboTexCols(gridTexDim[1], dim[1]),
              width |-> gridTexDim[1], height |-> gridTexDim[2],
              imageLength |-> Uint8ArrayLength(gridTexDim[1], gridTexDim[2]),
              maxIdx |-> -1, readPixels |-> 1]
    /\ readAt' = <<>>
    /\ readback' = [image |-> image[texture], data |-> <<>>, idData |-> <<>>]
    /\ allocs' = createdAnew(allocs, "framebuffer")
    /\ pc' = "extract"
    /\ UNCHANGED <<blendMinMax, calls, entry, dim, lay, gridTexDim, texture, textures,
                   tmpFramebuffer, renderable, glstate, pass, cursor, batches, drawnAt>>
    /\ UNCHANGED <<position, instances, image>>
    /\ UNCHANGED <<bndVars, codec, extVars>>

\* idx of cell (ix, iy) of the slice whose tile is at column tmpCol, row offset tmpRow
pixelIdx(tmpCol, tmpRow, ix, iy, dx, width) == 4 * (tmpCol * dx + (iy + tmpRow) * width + ix)

\* one iteration of the iz loop, its iy and ix loops included
extractSlice ==
    /\ pc = "extract"
    /\ ex.iz < dim[3]
    /\ LET tile == nextTile(ex.tmpCol, ex.tmpRow, ex.fboTexCols, dim[2])
           tmpCol == tile[1]
           tmpRow == tile[2]
           \* idx grows with ix and iy, so the last cell of the slice has the largest;
           \* a slice with dx = 0 or dy = 0 has no cell
           last == IF dim[1] = 0 \/ dim[2] = 0 THEN -1
                   ELSE pixelIdx(tmpCol, tmpRow, dim[1] - 1, dim[2] - 1, dim[1], ex.width) + 3
       IN  /\ ex' = [ex EXCEPT !.iz = @ + 1, !.tmpCol = tmpCol + 1, !.tmpRow = tmpRow,
                               !.maxIdx = Max(@, last)]
           /\ readAt' = Append(readAt, <<tmpCol * dim[1], tmpRow>>)
           /\ LET idxOf(n) == pixelIdx(tmpCol, tmpRow, (n - 1) % dim[1],
                                       (n - 1) \div dim[1], dim[1], ex.width)
                  byte(n, c) == imageByte(readback.image, ex.width, ex.imageLength,
                                          idxOf(n) + c)
              IN  readback' = [readback EXCEPT
                      !.data = @ \o [n \in 1..(dim[1] * dim[2]) |->
                                        alphaOver255(byte(n, 3))],
                      !.idData = @ \o [n \in 1..(dim[1] * dim[2]) |->
                                        idDataOf(byte(n, 0), byte(n, 1), byte(n, 2))]]
    /\ UNCHANGED <<blendMinMax, calls, pc, entry, dim, lay, gridTexDim, texture, textures,
                   tmpFramebuffer, renderable, glstate, pass, cursor, batches, drawnAt>>
    /\ UNCHANGED <<position, instances, image>>
    /\ UNCHANGED allocs
    /\ UNCHANGED <<bndVars, codec, extVars>>

\* fieldFromTexture2d and GaussianDensityGPU return
returnField ==
    /\ pc = "extract"
    /\ ex.iz >= dim[3]
    /\ pc' = "idle"
    /\ UNCHANGED <<blendMinMax, calls, entry, dim, lay, gridTexDim, texture, textures,
                   tmpFramebuffer, renderable, glstate, pass, cursor, batches, drawnAt,
                   ex, readAt>>
    /\ UNCHANGED pixVars
    /\ UNCHANGED allocs
    /\ UNCHANGED <<bndVars, codec, extVars>>

(* -------------------------------- Next --------------------------------- *)
Next ==
    \/ \E d \in Dims : calcGaussianDensityTexture2d("GaussianDensityGPU", d, "_tmpTexture")
    \/ \E d \in Dims, arg \in {NoArgument, "texture"} :
           calcGaussianDensityTexture2d("GaussianDensityTexture2d", d, arg)
    \/ \E d \in Dims, arg \in {NoArgument, "texture"} : calcGaussianDensityTexture3d(d, arg)
    \/ setupDensityRendering
    \/ setupMinDistanceRendering
    \/ setupGroupIdRendering
    \/ render
    \/ renderSlice2d
    \/ renderSlice3d
    \/ renderFinish
    \/ returnTextureData
    \/ fieldFromTexture2d
    \/ extractSlice
    \/ returnField

Spec == Init /\ [][Next]_vars

\* the pipeline when every request is for a grid with an empty axis
NextEmpty ==
    \/ \E d \in EmptyDims : calcGaussianDensityTexture2d("GaussianDensityGPU", d, "_tmpTexture")
    \/ \E d \in EmptyDims, arg \in {NoArgument, "texture"} :
           calcGaussianDensityTexture2d("GaussianDensityTexture2d", d, arg)
    \/ \E d \in EmptyDims, arg \in {NoArgument, "texture"} :
           calcGaussianDensityTexture3d(d, arg)
    \/ setupDensityRendering
    \/ setupMinDistanceRendering
    \/ setupGroupIdRendering
    \/ render
    \/ renderSlice2d
    \/ renderSlice3d
    \/ renderFinish
    \/ returnTextureData
    \/ fieldFromTexture2d
    \/ extractSlice
    \/ returnField

SpecEmpty == Init /\ [][NextEmpty]_vars

(* ------------------------- the float-channel codec --------------------- *)
\* the integers the three channels can hold
CodecDomain == 0..16777215

CodecInputs ==
    (0..MaxCodecValue) \cup {65535, 65536, 65537, 65791, 131071, 8388608, 16777214, 16777215}

\* the GroupId pass encodes a group id into the three colour bytes
encodeGroup ==
    /\ codec.pc = "value"
    /\ codec' = [codec EXCEPT !.pc = "encoded", !.rgb = encodeFloatRGB(codec.v)]
    /\ UNCHANGED <<gpuVars, bndVars, extVars>>

\* fieldFromTexture2d decodes the three bytes of a cell
decodeGroup ==
    /\ codec.pc = "encoded"
    /\ codec' = [codec EXCEPT !.pc = "decoded",
                              !.id = idDataOf(codec.rgb[1], codec.rgb[2], codec.rgb[3])]
    /\ UNCHANGED <<gpuVars, bndVars, extVars>>

InitCodec ==
    /\ ExtFresh
    /\ other = NoOther
    /\ codec \in [pc : {"value"}, v : CodecInputs, rgb : {<<0, 0, 0>>}, id : {0}]
    /\ blendMinMax = TRUE
    /\ pc = "off"
    /\ position = <<>>
    /\ GpuFresh
    /\ bpc = "off"
    /\ data = <<>>
    /\ hasRadius = FALSE
    /\ tracksExtrema = FALSE
    /\ BoundaryFresh

NextCodec == encodeGroup \/ decodeGroup

SpecCodec == InitCodec /\ [][NextCodec]_vars

(* --------------------------- tryAdjustBoundary ------------------------- *)
\* The radius of a fitted sphere is sqrt(s) + a for integers s and a, and the
\* code holds it as a double. A comparison of the code is decided in exact
\* integers where the two sides differ by far more than the rounding of the
\* doubles, and in doubles where they are equal or next to equal.
jsNumber(x) == FAdd(FSqrtInt(NumRootSq(x)), FFromInt(NumCoef(x, 1)))

\* m * sqrt(d) and n * sqrt(s) + k are equal, or so close that the integer
\* bounds floor(sqrt(s)) and floor(sqrt(s)) + 1 of sqrt(s) do not tell them
\* apart: the code's doubles are asked then. Elsewhere the two differ by far
\* more than the doubles round, and the exact comparison is the code's.
RootNear(m, d, n, s, k) ==
    LET L == m * m * d - n * n * s - k * k
        c == 2 * k * n
    IN  IF c = 0 THEN L = 0 ELSE L >= 0 /\ L \div c = ISqrt(s)

\* threshold = (radius / 100) * 5, as a fraction of the radius
thresholdDoubled(radius) == [num |-> 1, den |-> 10]
threshold(radius) == [num |-> 1, den |-> 20]

\* (radius / 100) * 5 as the code computes it
jsThreshold(radius) ==
    LET th == threshold(radius)
    IN  FMul(FDivInt(jsNumber(radius), 100), FFromInt((100 * th.num) \div th.den))

\* upperSq = upper * upper
upperSq(upper) == FMul(upper, upper)

\* distSq > upperSq, for upper = radius + threshold
beyondUpper(distSq, radius) ==
    LET th == threshold(radius)
        n == th.den + th.num
        s == NumRootSq(radius)
        k == n * NumCoef(radius, 1)
    IN  IF RootNear(th.den, distSq, n, s, k)
        THEN FCmp(FFromInt(distSq), upperSq(FAdd(jsNumber(radius), jsThreshold(radius)))) > 0
        ELSE RootGt(th.den, distSq, n, s, k)

\* the scan of the positions: stops at the first point beyond upperSq, and
\* otherwise keeps the largest squared distance and the point that has it
RECURSIVE scanPositions(_, _, _, _, _)
scanPositions(d, i, center, radius, acc) ==
    IF i > Len(d) THEN acc
    ELSE LET distSq == v3squaredDistance(d[i].pos, center)
         IN  IF beyondUpper(distSq, radius)
             THEN [acc EXCEPT !.aborted = TRUE, !.p = d[i].pos]
             ELSE scanPositions(d, i + 1, center, radius,
                      IF distSq > acc.maxDistSq
                      THEN [acc EXCEPT !.p = d[i].pos, !.maxDistSq = distSq,
                                       !.extremPoint = d[i].pos]
                      ELSE [acc EXCEPT !.p = d[i].pos])

\* EPSILON = 0.000001
EPSILON ==
    LET one == FFromInt(1)
        a == LDiv(LShl(one.m, 30), 1000)
        b == LDiv(a.q, 1000)
    IN  FRound(b.q, one.e - 30, a.r # 0 \/ b.r # 0)

\* Math.abs(a - b) <= epsilon
equalEps(a, b, epsilon) == FCmp(FAbsSub(a, b), epsilon) <= 0

\* equalEps(adjustedRadius, radius, EPSILON), adjustedRadius = sqrt(adjustedSq),
\* radius = sqrt(s) + a. The two are equal, or differ by
\* |N| / ((adjustedRadius + radius) * Q) for the integers
\* L = adjustedSq - s - a * a, c = 2 * a, N = L * L - c * c * s and
\* Q = L + c * sqrt(s); where that is above ten times EPSILON the doubles need
\* not be asked.
equalEpsNever(adjustedSq, radius) == FALSE
equalEpsEPSILON(adjustedSq, radius) ==
    LET s == NumRootSq(radius)
        a == NumCoef(radius, 1)
        L == adjustedSq - s - a * a
        c == 2 * a
        up(n) == ISqrt(n) + 1
        N == L * L - c * c * s
        Q == L + c * up(s)
        P == up(adjustedSq) + up(s) + a
    IN  IF NumSqrt(adjustedSq) = radius THEN TRUE
        ELSE IF s = 0 \/ c = 0 \/ L <= 0 THEN FALSE
        ELSE IF /\ L <= 40000
                /\ c * up(s) <= 40000
                /\ (IF N >= 0 THEN N ELSE 0 - N) \div Q >= 1 + P \div 100000
             THEN FALSE
        ELSE equalEps(FSqrtInt(adjustedSq), jsNumber(radius), EPSILON)

\* equalEps(adjustedRadius, radius, threshold), adjustedRadius = sqrt(adjustedSq)
equalEpsThreshold(adjustedSq, radius) ==
    LET th == threshold(radius)
        s == NumRootSq(radius)
        a == NumCoef(radius, 1)
        lo == th.den - th.num
        hi == th.den + th.num
    IN  IF RootNear(th.den, adjustedSq, lo, s, lo * a) \/ RootNear(th.den, adjustedSq, hi, s, hi * a)
        THEN equalEps(FSqrtInt(adjustedSq), jsNumber(radius), jsThreshold(radius))
        ELSE /\ RootGeq(th.den, adjustedSq, lo, s, lo * a)
             /\ ~RootGt(th.den, adjustedSq, hi, s, hi * a)

Sphere3D_hasExtrema(sphere) == sphere.hasExtrema

\* v3distance(e, extremPoint) < threshold * 2
nearExtremumAlways(e, x, radius) == TRUE
nearExtremum(e, x, radius) ==
    LET th == threshold(radius)
        distSq == v3squaredDistance(e, x)
        s == NumRootSq(radius)
        k == 2 * th.num * NumCoef(radius, 1)
    IN  IF RootNear(th.den, distSq, 2 * th.num, s, k)
        THEN FCmp(FSqrtInt(distSq), FMul(jsThreshold(radius), FFromInt(2))) < 0
        ELSE ~RootGeq(th.den, distSq, 2 * th.num, s, k)

deltaRadiusUnsubtracted(adjustedRadius, radius) == adjustedRadius
deltaRadius(adjustedRadius, radius) == NumSub(adjustedRadius, radius)

\* a new sphere with the same centre and the radius grown by delta
Sphere3D_expand(sphere, delta) == [sphere EXCEPT !.radius = NumAdd(@, delta)]

\* a new box: the centre of the sphere -/+ its radius on every axis
Box3D_fromSphere3D(sphere) ==
    [min |-> [k \in 1..3 |-> NumSub(NumInt(sphere.center[k]), sphere.radius)],
     max |-> [k \in 1..3 |-> NumAdd(NumInt(sphere.center[k]), sphere.radius)]]

\* what tryAdjustBoundary returns after a scan that ended in acc
adjustOutcome(b, acc) ==
    LET radius == b.sphere.radius
        adjustedRadius == NumSqrt(acc.maxDistSq)
        flag == \E k \in 1..Len(b.sphere.extrema) :
                    nearExtremum(b.sphere.extrema[k], acc.extremPoint, radius)
        sphere == Sphere3D_expand(b.sphere, deltaRadius(adjustedRadius, radius))
        undefined == [kind |-> "undefined", same |-> FALSE, boundary |-> NoBoundary,
                      sphereObject |-> "none", boxObject |-> "none"]
    IN  IF acc.aborted THEN undefined
        ELSE IF equalEpsEPSILON(acc.maxDistSq, radius)
        THEN [kind |-> "boundary", same |-> TRUE, boundary |-> b,
              sphereObject |-> "boundary.sphere", boxObject |-> "boundary.box"]
        ELSE IF equalEpsThreshold(acc.maxDistSq, radius)
                  /\ (Sphere3D_hasExtrema(b.sphere) => flag)
        THEN [kind |-> "boundary", same |-> FALSE,
              boundary |-> [box |-> Box3D_fromSphere3D(sphere), sphere |-> sphere],
              sphereObject |-> "Sphere3D()", boxObject |-> "Box3D()"]
        ELSE undefined

\* between the fit and the re-validation the caller moves the points: it
\* writes new coordinates into the x, y, z arrays of the PositionData
movePositions ==
    /\ bpc = "fitted"
    /\ data' \in Moved(data)
    /\ bpc' = "moved"
    /\ UNCHANGED <<fits, hasRadius, tracksExtrema, helpers, t, p, extremPoint, boundary,
                   result>>
    /\ UNCHANGED <<gpuVars, codec, other, extVars>>

\* the scan of tryAdjustBoundary(data, boundary), from maxDistSq = 0
scanOf(d, b) ==
    scanPositions(d, 1, b.sphere.center, b.sphere.radius,
                  [aborted |-> FALSE, maxDistSq |-> 0, p |-> p,
                   extremPoint |-> extremPoint])

tryAdjustBoundaryInPlace ==
    /\ bpc = "moved"
    /\ LET acc == scanOf(data, boundary)
           out == adjustOutcome(boundary, acc)
       IN  /\ p' = acc.p
           /\ extremPoint' = acc.extremPoint
           /\ result' = [out EXCEPT !.same = (out.kind = "boundary"),
                                    !.sphereObject = IF out.kind = "boundary"
                                                     THEN "boundary.sphere" ELSE @,
                                    !.boxObject = IF out.kind = "boundary"
                                                  THEN "boundary.box" ELSE @]
           /\ boundary' = IF out.kind = "boundary" THEN out.boundary ELSE boundary
    /\ bpc' = "adjusted"
    /\ UNCHANGED <<fits, data, hasRadius, tracksExtrema, helpers, t>>
    /\ UNCHANGED <<gpuVars, codec, other, extVars>>

\* tryAdjustBoundary(data, boundary) for the fitted boundary and the point set
\* as the caller left it: data and boundary are read, p and extremPoint are
\* written
tryAdjustBoundary ==
    /\ bpc = "moved"
    /\ LET acc == scanOf(data, boundary)
       IN  /\ p' = acc.p
           /\ extremPoint' = acc.extremPoint
           /\ result' = adjustOutcome(boundary, acc)
    /\ bpc' = "adjusted"
    /\ UNCHANGED <<fits, data, hasRadius, tracksExtrema, helpers, t, boundary>>
    /\ UNCHANGED <<gpuVars, codec, other, extVars>>

InitB ==
    /\ ExtFresh
    /\ other = NoOther
    /\ codec = NoCodec
    /\ blendMinMax = TRUE
    /\ pc = "off"
    /\ position = <<>>
    /\ GpuFresh
    /\ bpc = "call"
    /\ hasRadius \in BOOLEAN
    /\ tracksExtrema \in BOOLEAN
    /\ data \in PointSets(IF hasRadius THEN Radii ELSE {0})
    /\ BoundaryFresh

NextB ==
    \/ getBoundary
    \/ includePositionRadius
    \/ finishedIncludeStep
    \/ radiusPositionRadius
    \/ getBoundaryReturn
    \/ movePositions
    \/ tryAdjustBoundary

SpecBoundary == InitB /\ [][NextB]_vars

(* ------------------- getBoundary called a second time ------------------ *)
\* getBoundary is one synchronous function: a call runs to its return before
\* the caller can call it again. The caller keeps the argument and the return
\* value of the first call (other) and calls getBoundary on another point set;
\* the second call works on the same module-level boundaryHelperCoarse /
\* boundaryHelperFine and p.
callGetBoundaryAgain ==
    /\ bpc = "fitted"
    /\ other.pc = "off"
    /\ other' = [pc |-> "fitted", data |-> data, t |-> t, boundary |-> boundary]
    /\ data' \in PointSets(IF hasRadius THEN Radii ELSE {0})
    /\ bpc' = "call"
    /\ UNCHANGED <<fits, hasRadius, tracksExtrema, helpers, t, p, extremPoint, boundary,
                   result>>
    /\ UNCHANGED <<gpuVars, codec, extVars>>

NextTwoCalls ==
    \/ getBoundary
    \/ includePositionRadius
    \/ finishedIncludeStep
    \/ radiusPositionRadius
    \/ getBoundaryReturn
    \/ callGetBoundaryAgain

SpecTwoCalls == InitB /\ [][NextTwoCalls]_vars

(* --------------------- prepareGaussianDensityData ---------------------- *)
\* PositionData: indices is an ordered set of indices into the parallel arrays
Indices == 0..MaxIndex
OrderedSets ==
    {s \in UNION {[1..n -> Indices] : n \in 0..(MaxIndex + 1)} :
        \A a, b \in 1..Len(s) : a < b => s[a] < s[b]}
Coordinates == {<<0, 0, 0>>, <<1, 2, 3>>}
GroupIds == {5, 7}
NoId == <<>>

PrepareInputs ==
    [pc : {"call"}, indices : OrderedSets, xyz : [Indices -> Coordinates],
     radius : [Indices -> {1, 2}], radiusOffset : {0, 1},
     id : {NoId} \cup [Indices -> GroupIds]]

\* the arrays are allocated and maxRadius starts at 0
prepareAllocate ==
    /\ pc = "off"
    /\ position.pc = "call"
    /\ instances' = [drawCount |-> 0, aPosition |-> <<>>, aRadius |-> <<>>,
                     aGroup |-> <<>>, maxRadius |-> 0]
    /\ position' = [position EXCEPT !.pc = "loop"]
    /\ UNCHANGED <<blendMinMax, calls, pc, entry, dim, lay, gridTexDim, texture, textures,
                   tmpFramebuffer, renderable, glstate, pass, cursor, batches, drawnAt,
                   ex, readAt, image, readback, allocs>>
    /\ UNCHANGED <<bndVars, codec, extVars>>

\* groups[i] = id ? id[i] : i
groupOf(id, i, j) == IF id = NoId THEN i ELSE id[i]

\* one iteration of the loop over the active indices
prepareIndex ==
    /\ pc = "off"
    /\ position.pc = "loop"
    /\ Len(instances.aGroup) < Len(position.indices)
    /\ LET i == Len(instances.aGroup)
           j == position.indices[i + 1]
           r == position.radius[j] + position.radiusOffset
       IN  instances' = [instances EXCEPT
               !.aPosition = Append(@, position.xyz[j]),
               !.aRadius = Append(@, r),
               !.aGroup = Append(@, groupOf(position.id, i, j)),
               !.maxRadius = IF @ < r THEN r ELSE @]
    /\ UNCHANGED <<blendMinMax, calls, pc, entry, dim, lay, gridTexDim, texture, textures,
                   tmpFramebuffer, renderable, glstate, pass, cursor, batches, drawnAt,
                   ex, readAt, position, image, readback, allocs>>
    /\ UNCHANGED <<bndVars, codec, extVars>>

\* return { drawCount: n, positions, radii, groups, ..., maxRadius }
prepareReturn ==
    /\ pc = "off"
    /\ position.pc = "loop"
    /\ Len(instances.aGroup) >= Len(position.indices)
    /\ instances' = [instances EXCEPT !.drawCount = Len(position.indices)]
    /\ position' = [position EXCEPT !.pc = "done"]
    /\ UNCHANGED <<blendMinMax, calls, pc, entry, dim, lay, gridTexDim, texture, textures,
                   tmpFramebuffer, renderable, glstate, pass, cursor, batches, drawnAt,
                   ex, readAt, image, readback, allocs>>
    /\ UNCHANGED <<bndVars, codec, extVars>>

InitPrepare ==
    /\ ExtFresh
    /\ other = NoOther
    /\ codec = NoCodec
    /\ blendMinMax = TRUE
    /\ pc = "off"
    /\ position \in PrepareInputs
    /\ GpuFresh
    /\ bpc = "off"
    /\ data = <<>>
    /\ hasRadius = FALSE
    /\ tracksExtrema = FALSE
    /\ BoundaryFresh

NextPrepare ==
    \/ prepareAllocate
    \/ prepareIndex
    \/ prepareReturn

SpecPrepare == InitPrepare /\ [][NextPrepare]_vars

(* ---------------------------- DirectVolume ---------------------------- *)
\* an unsigned 32-bit number is <<high 16 bits, low 16 bits>>; -1 is <<-1, 65535>>
MinusOne == <<-1, 65535>>

RECURSIVE Xor(_, _)
Xor(a, b) ==
    IF a = 0 THEN b
    ELSE IF b = 0 THEN a
    ELSE 2 * Xor(a \div 2, b \div 2) + (((a % 2) + (b % 2)) % 2)

\* hval ^= v; hval += (hval << 1) + (hval << 4) + (hval << 7) + (hval << 8) + (hval << 24),
\* i.e. hval = (hval ^ v) * 16777619 mod 2^32, for 0 <= v < 65536
fnvStep(h, v) ==
    LET lo == Xor(h[2], v)
        prod == lo * 403
    IN  <<(h[1] * 403 + prod \div 65536 + (lo % 256) * 256) % 65536, prod % 65536>>

RECURSIVE fnvFrom(_, _, _)
fnvFrom(h, array, i) ==
    IF i > Len(array) THEN h ELSE fnvFrom(fnvStep(h, array[i]), array, i + 1)

\* FNV-1a over the numbers of the array, from the offset basis 0x811c9dc5
hashFnv32a(array) == fnvFrom(<<33052, 40389>>, array, 1)

hashCodeOfNothing(v) == hashFnv32a(<<>>)

\* the hash of the versions of bboxSize, gridDimension, gridTexture, transform, gridStats
hashCode(v) ==
    hashFnv32a(<<v.bboxSize, v.gridDimension, v.gridTexture, v.transform, v.gridStats>>)

\* a grid transform: a uniform scale s and a translation by (t, t, t)
GridDimensions == {<<1, 1, 1>>, <<2, 1, 1>>, <<2, 2, 2>>}
GridTransforms == {[s |-> 1, t |-> 0], [s |-> 2, t |-> 1]}

\* Sphere3D(): centre 0 and radius 0; coordinates are kept doubled and the
\* radius as four times its square
EmptySphere == [center |-> <<0, 0, 0>>, radiusSq |-> 0]

\* the sphere around the transformed grid box
getBoundingSphere(gridDimension, gridTransform) ==
    [center |-> [k \in 1..3 |-> gridTransform.s * gridDimension[k] + 2 * gridTransform.t],
     radiusSq |-> gridTransform.s * gridTransform.s *
                  (gridDimension[1] * gridDimension[1] + gridDimension[2] * gridDimension[2]
                   + gridDimension[3] * gridDimension[3])]

\* ValueCell.create: version 0; ValueCell.update: the next version
NewVersions ==
    [bboxSize |-> 0, gridDimension |-> 0, gridTexture |-> 0, transform |-> 0, gridStats |-> 0]
NextVersions(v) == [c \in DOMAIN v |-> v[c] + 1]

volumeOps == IF directVolume.created THEN directVolume.ops ELSE 0

\* DirectVolume.create without a directVolume: fromData
fromData(d, m) ==
    /\ pc = "off" /\ bpc = "off"
    /\ volumeOps < MaxVolumeOps
    /\ directVolume' =
           [created |-> TRUE, ops |-> volumeOps + 1, version |-> NewVersions,
            gridDimension |-> d, transform |-> m,
            boundingSphere |-> EmptySphere, currentHash |-> MinusOne,
            dirty |-> TRUE, read |-> FALSE, recomputed |-> FALSE, wasDirty |-> FALSE]
    /\ UNCHANGED <<gpuVars, bndVars, codec, links, hierarchy>>

\* DirectVolume.create with a directVolume: update
update(d, m) ==
    /\ pc = "off" /\ bpc = "off"
    /\ directVolume.created
    /\ volumeOps < MaxVolumeOps
    /\ directVolume' =
           [directVolume EXCEPT !.ops = @ + 1, !.version = NextVersions(@),
                                !.gridDimension = d, !.transform = m,
                                !.dirty = TRUE, !.read = FALSE]
    /\ UNCHANGED <<gpuVars, bndVars, codec, links, hierarchy>>

\* get boundingSphere()
boundingSphere ==
    /\ pc = "off" /\ bpc = "off"
    /\ directVolume.created
    /\ LET newHash == hashCode(directVolume.version)
           stale == newHash # directVolume.currentHash
       IN  directVolume' =
               [directVolume EXCEPT
                   !.boundingSphere =
                       IF stale
                       THEN getBoundingSphere(directVolume.gridDimension,
                                              directVolume.transform)
                       ELSE @,
                   !.currentHash = IF stale THEN newHash ELSE @,
                   !.recomputed = stale, !.wasDirty = directVolume.dirty,
                   !.dirty = FALSE, !.read = TRUE]
    /\ UNCHANGED <<gpuVars, bndVars, codec, links, hierarchy>>

InitVolume ==
    /\ ExtFresh
    /\ other = NoOther
    /\ codec = NoCodec
    /\ blendMinMax = TRUE
    /\ pc = "off"
    /\ position = <<>>
    /\ GpuFresh
    /\ bpc = "off"
    /\ data = <<>>
    /\ hasRadius = FALSE
    /\ tracksExtrema = FALSE
    /\ BoundaryFresh

NextVolume ==
    \/ \E d \in GridDimensions, m \in GridTransforms : fromData(d, m)
    \/ \E d \in GridDimensions, m \in GridTransforms : update(d, m)
    \/ boundingSphere

SpecVolume == InitVolume /\ [][NextVolume]_vars

(* ------------------- createLinkCylinderMesh / Lines -------------------- *)
\* const enum LinkStyle
Solid == 0
Dashed == 1
Double == 2
Triple == 3
Disk == 4
LinkStyles == {Solid, Dashed, Double, Triple, Disk}

\* a radius of 1 is 30 units; linkScale and linkSpacing are in tenths
LinkRadius == 30
NoStyle == <<>>

orderByStyle(linkStyle) == IF linkStyle = Double THEN 2 ELSE 3
\* const order = LinkStyle.Double ? 2 : 3: the condition is the constant 2
order(linkStyle) == IF Double # 0 THEN 2 ELSE 3

\* linkRadius * (linkScale / (0.5 * order))
multiRadius(linkRadius, linkScale, linkStyle) ==
    (linkRadius * linkScale * 2) \div (10 * order(linkStyle))

\* what one iteration of createLinkCylinderMesh adds for an edge
linkCylinders(edgeIndex, linkStyle, in) ==
    LET cyl(kind, r, top, bottom, shift) ==
            [prim |-> kind, group |-> edgeIndex, radius |-> r,
             topCap |-> top, bottomCap |-> bottom, shift |-> shift]
        mr == multiRadius(LinkRadius, in.linkScale, linkStyle)
        absOffset == (LinkRadius - mr) * in.linkSpacing
    IN  IF linkStyle = Solid
        THEN <<cyl("cylinder", LinkRadius, in.linkCap, in.linkCap, 0)>>
        ELSE IF linkStyle = Dashed
        THEN <<cyl("dashedCylinder", LinkRadius \div 3, TRUE, TRUE, 0)>>
        ELSE IF linkStyle = Double \/ linkStyle = Triple
        THEN (IF order(linkStyle) = 3
              THEN <<cyl("cylinder", mr, in.linkCap, in.linkCap, 0)>> ELSE <<>>)
             \o <<cyl("doubleCylinder", mr, in.linkCap, in.linkCap, absOffset)>>
        ELSE IF in.upward[edgeIndex + 1]
        THEN <<cyl("cylinder", LinkRadius, FALSE, in.linkCap, 0)>>
        ELSE <<cyl("cylinder", LinkRadius, in.linkCap, FALSE, 0)>>

\* what one iteration of createLinkLines adds for an edge
linkLines(edgeIndex, linkStyle, in) ==
    LET line(kind, shift) == [prim |-> kind, group |-> edgeIndex, shift |-> shift]
        mr == multiRadius(LinkRadius, in.linkScale, linkStyle)
        absOffset == (LinkRadius - mr) * in.linkSpacing
    IN  IF linkStyle = Solid THEN <<line("line", 0)>>
        ELSE IF linkStyle = Dashed THEN <<line("dashes", 0)>>
        ELSE IF linkStyle = Double \/ linkStyle = Triple
        THEN (IF order(linkStyle) = 3 THEN <<line("line", 0)>> ELSE <<>>)
             \o <<line("line", absOffset), line("line", 0 - absOffset)>>
        ELSE <<line("diskLine", 0)>>

\* style ? style(edgeIndex) : LinkStyle.Solid
styleOf(in, edgeIndex) == IF in.style = NoStyle THEN Solid ELSE in.style[edgeIndex + 1]

LinkInputs ==
    UNION {[pc : {"call"}, fn : {"createLinkCylinderMesh", "createLinkLines"},
            linkCount : {n}, style : {NoStyle} \cup [1..n -> LinkStyles],
            ignore : [1..n -> BOOLEAN], upward : [1..n -> BOOLEAN],
            linkScale : {4}, linkSpacing : {10}, linkCap : BOOLEAN,
            edgeIndex : {0}, out : {<<>>}] : n \in 0..MaxLinks}

\* the statements before the loop: an empty link set returns the empty geometry
createLinkGeometry ==
    /\ links.pc = "call"
    /\ links' = [links EXCEPT !.pc = IF links.linkCount = 0 THEN "done" ELSE "loop"]
    /\ UNCHANGED <<gpuVars, bndVars, codec, directVolume, hierarchy>>

\* one iteration of the loop over the edges
addLink ==
    /\ links.pc = "loop"
    /\ links.edgeIndex < links.linkCount
    /\ LET e == links.edgeIndex
           added == IF links.ignore[e + 1] THEN <<>>
                    ELSE IF links.fn = "createLinkCylinderMesh"
                    THEN linkCylinders(e, styleOf(links, e), links)
                    ELSE linkLines(e, styleOf(links, e), links)
       IN  links' = [links EXCEPT !.edgeIndex = e + 1, !.out = @ \o added]
    /\ UNCHANGED <<gpuVars, bndVars, codec, directVolume, hierarchy>>

\* MeshBuilder.getMesh / builder.getLines
returnLinkGeometry ==
    /\ links.pc = "loop"
    /\ links.edgeIndex >= links.linkCount
    /\ links' = [links EXCEPT !.pc = "done"]
    /\ UNCHANGED <<gpuVars, bndVars, codec, directVolume, hierarchy>>

InitLinks ==
    /\ directVolume = NoVolume
    /\ hierarchy = NoHierarchy
    /\ links \in LinkInputs
    /\ other = NoOther
    /\ codec = NoCodec
    /\ blendMinMax = TRUE
    /\ pc = "off"
    /\ position = <<>>
    /\ GpuFresh
    /\ bpc = "off"
    /\ data = <<>>
    /\ hasRadius = FALSE
    /\ tracksExtrema = FALSE
    /\ BoundaryFresh

NextLinks ==
    \/ createLinkGeometry
    \/ addLink
    \/ returnLinkGeometry

SpecLinks == InitLinks /\ [][NextLinks]_vars

(* -------------- invocations on changing position data ----------------- *)
\* the position data a caller may pass
Positions == {<<[cell |-> "first"]>>, <<[cell |-> "first"], [cell |-> "last"]>>}

\* between two invocations the caller's points change
movePoints ==
    /\ pc \in {"idle", "thrown"}
    /\ position' \in Positions \ {position}
    /\ UNCHANGED <<blendMinMax, calls, pc, entry, dim, lay, gridTexDim, texture, textures,
                   tmpFramebuffer, renderable, glstate, pass, cursor, batches, drawnAt,
                   ex, readAt, instances, image, readback, allocs>>
    /\ UNCHANGED <<bndVars, codec, extVars>>

InitReuse ==
    /\ ExtFresh
    /\ other = NoOther
    /\ codec = NoCodec
    /\ blendMinMax = TRUE
    /\ pc = "idle"
    /\ position \in Positions
    /\ GpuFresh
    /\ bpc = "off"
    /\ data = <<>>
    /\ hasRadius = FALSE
    /\ tracksExtrema = FALSE
    /\ BoundaryFresh

\* the 2D entry points, called again and again on the same output texture
NextReuse ==
    \/ \E d \in Dims : calcGaussianDensityTexture2d("GaussianDensityGPU", d, "_tmpTexture")
    \/ \E d \in Dims, arg \in {NoArgument, "texture"} :
           calcGaussianDensityTexture2d("GaussianDensityTexture2d", d, arg)
    \/ movePoints
    \/ setupDensityRendering
    \/ setupMinDistanceRendering
    \/ setupGroupIdRendering
    \/ render
    \/ renderSlice2d
    \/ renderFinish
    \/ returnTextureData
    \/ fieldFromTexture2d
    \/ extractSlice
    \/ returnField

SpecReuse == InitReuse /\ [][NextReuse]_vars

(* ---------------------- StructureHierarchyManager ---------------------- *)
\* the cells the data state can hold, in tree order: trajectory t1 with model
\* m1 with structures s1 and s2, and trajectory t2
CellOrder == <<"t1", "m1", "s1", "s2", "t2">>
CellRefs == {CellOrder[i] : i \in 1..Len(CellOrder)}
CellKind(r) == IF r \in {"t1", "t2"} THEN "trajectory"
               ELSE IF r = "m1" THEN "model" ELSE "structure"
CellParents(r) == IF r = "m1" THEN {"t1"}
                  ELSE IF r \in {"s1", "s2"} THEN {"m1", "t1"} ELSE {}

\* the components of a structure ref: their keys, '' for a component without key
ComponentKeys(r) == IF r = "s1" THEN <<"polymer">> ELSE <<"polymer", "">>

NoCache == [present |-> FALSE]
Cached(v) == [present |-> TRUE, value |-> v]

\* StructureHierarchy(): no refs; a ref object is the transform ref of its cell
\* and the version of the cell it was built from
EmptyHierarchy == [r \in CellRefs |-> 0]
RefObject(h, r) == [ref |-> r, version |-> h[r]]

\* hierarchy.trajectories / models / structures, in tree order
refsOfKind(h, kind) ==
    LET present == SelectSeq(CellOrder, LAMBDA r : h[r] > 0 /\ CellKind(r) = kind)
    IN  [i \in 1..Len(present) |-> RefObject(h, present[i])]

\* buildStructureHierarchy(dataState, oldHierarchy): the hierarchy of the cells
\* now in the data state, and what was added, updated and removed
buildStructureHierarchy(dataState, old) ==
    [hierarchy |-> dataState,
     added |-> {r \in CellRefs : old[r] = 0 /\ dataState[r] > 0},
     updated |-> {r \in CellRefs : old[r] > 0 /\ dataState[r] > 0 /\ old[r] # dataState[r]},
     removed |-> {r \in CellRefs : old[r] > 0 /\ dataState[r] = 0}]

syncCurrent(h, current, all) ==
    LET first == IF Len(all) > 0 THEN <<all[1]>> ELSE <<>>
        kept == SelectSeq(current, LAMBDA c : h[c.ref] > 0)
        newCurrent == [i \in 1..Len(kept) |-> RefObject(h, kept[i].ref)]
    IN  IF Len(current) = 0 THEN first
        ELSE IF Len(newCurrent) = 0 THEN first
        ELSE newCurrent

\* the transform refs of the current trajectories, models and structures
selectionSetOf(current) ==
    {current.trajectories[i].ref : i \in 1..Len(current.trajectories)}
    \cup {current.models[i].ref : i \in 1..Len(current.models)}
    \cup {current.structures[i].ref : i \in 1..Len(current.structures)}

componentsOf(s) ==
    [i \in 1..Len(ComponentKeys(s.ref)) |-> [structure |-> s, key |-> ComponentKeys(s.ref)[i]]]

RECURSIVE groupByKey(_, _, _)
groupByKey(groups, cs, i) ==
    IF i > Len(cs) THEN groups
    ELSE LET c == cs[i]
             at == {g \in 1..Len(groups) : groups[g][1].key = c.key}
         IN  IF c.key = "" THEN groupByKey(groups, cs, i + 1)
             ELSE IF at = {} THEN groupByKey(Append(groups, <<c>>), cs, i + 1)
             ELSE groupByKey([groups EXCEPT ![CHOOSE g \in at : TRUE] = Append(@, c)],
                             cs, i + 1)

RECURSIVE allComponents(_, _)
allComponents(structures, i) ==
    IF i > Len(structures) THEN <<>>
    ELSE componentsOf(structures[i]) \o allComponents(structures, i + 1)

getComponentGroups(structures) ==
    IF Len(structures) = 0 THEN <<>>
    ELSE IF Len(structures) = 1
    THEN [i \in 1..Len(componentsOf(structures[1])) |-> <<componentsOf(structures[1])[i]>>]
    ELSE groupByKey(<<>>, allComponents(structures, 1), 1)

\* the data state changes: a cell is added under its parents, updated, or
\* removed with everything below it
changeData ==
    /\ hierarchy.pc = "on"
    /\ hierarchy.stamp < MaxEdits
    /\ \E r \in CellRefs :
           \/ /\ hierarchy.dataState[r] = 0 => \A q \in CellParents(r) : hierarchy.dataState[q] > 0
              /\ hierarchy' = [hierarchy EXCEPT !.stamp = @ + 1,
                                                !.dataState[r] = hierarchy.stamp + 1]
           \/ /\ hierarchy.dataState[r] > 0
              /\ hierarchy' = [hierarchy EXCEPT
                     !.stamp = @ + 1,
                     !.dataState = [q \in CellRefs |->
                                       IF q = r \/ r \in CellParents(q) THEN 0 ELSE @[q]]]
    /\ UNCHANGED <<gpuVars, bndVars, codec, directVolume, links>>

\* get currentComponentGroups()
currentComponentGroups ==
    /\ hierarchy.pc = "on"
    /\ hierarchy' = [hierarchy EXCEPT !.componentGroups =
           IF @.present THEN @ ELSE Cached(getComponentGroups(hierarchy.current.structures))]
    /\ UNCHANGED <<gpuVars, bndVars, codec, directVolume, links>>

\* the value get currentSeletionSet() returns, and the cache it leaves
currentSeletionSet ==
    /\ hierarchy.pc = "on"
    /\ hierarchy' = [hierarchy EXCEPT !.selectionSet =
           IF @.present THEN @ ELSE Cached(selectionSetOf(hierarchy.current))]
    /\ UNCHANGED <<gpuVars, bndVars, codec, directVolume, links>>

sync ==
    /\ hierarchy.pc = "on"
    /\ LET upd == buildStructureHierarchy(hierarchy.dataState, hierarchy.built)
           h == upd.hierarchy
       IN  IF upd.added = {} /\ upd.updated = {} /\ upd.removed = {}
           THEN hierarchy' = hierarchy
           ELSE hierarchy' = [hierarchy EXCEPT
                    !.componentGroups = NoCache,
                    !.selectionSet = NoCache,
                    !.built = h,
                    !.current =
                        [trajectories |-> syncCurrent(h, hierarchy.current.trajectories,
                                                      refsOfKind(h, "trajectory")),
                         models |-> syncCurrent(h, hierarchy.current.models,
                                                refsOfKind(h, "model")),
                         structures |-> syncCurrent(h, hierarchy.current.structures,
                                                    refsOfKind(h, "structure"))]]
    /\ UNCHANGED <<gpuVars, bndVars, codec, directVolume, links>>

updateCurrentKeepsCaches(refs, action) ==
    /\ hierarchy.pc = "on"
    /\ LET selection == IF hierarchy.selectionSet.present THEN hierarchy.selectionSet.value
                        ELSE selectionSetOf(hierarchy.current)
           set == IF action = "add" THEN selection \cup refs ELSE selection \ refs
           pick(kind) == SelectSeq(refsOfKind(hierarchy.built, kind), LAMBDA o : o.ref \in set)
       IN  hierarchy' = [hierarchy EXCEPT
               !.selectionSet = Cached(selection),
               !.current = [trajectories |-> pick("trajectory"), models |-> pick("model"),
                            structures |-> pick("structure")]]
    /\ UNCHANGED <<gpuVars, bndVars, codec, directVolume, links>>

updateCurrent(refs, action) ==
    /\ hierarchy.pc = "on"
    /\ LET selection == IF hierarchy.selectionSet.present THEN hierarchy.selectionSet.value
                        ELSE selectionSetOf(hierarchy.current)
           set == IF action = "add" THEN selection \cup refs ELSE selection \ refs
           pick(kind) == SelectSeq(refsOfKind(hierarchy.built, kind), LAMBDA o : o.ref \in set)
       IN  hierarchy' = [hierarchy EXCEPT
               !.componentGroups = NoCache,
               !.selectionSet = NoCache,
               !.current = [trajectories |-> pick("trajectory"), models |-> pick("model"),
                            structures |-> pick("structure")]]
    /\ UNCHANGED <<gpuVars, bndVars, codec, directVolume, links>>

\* the refs a caller hands to updateCurrent
RefSets == {rs \in SUBSET CellRefs : Cardinality(rs) \in {1, 2}}

InitHierarchy ==
    /\ directVolume = NoVolume
    /\ links = NoLinks
    /\ hierarchy = [pc |-> "on", stamp |-> 0, dataState |-> EmptyHierarchy,
                    built |-> EmptyHierarchy,
                    current |-> [trajectories |-> <<>>, models |-> <<>>, structures |-> <<>>],
                    componentGroups |-> NoCache, selectionSet |-> NoCache]
    /\ other = NoOther
    /\ codec = NoCodec
    /\ blendMinMax = TRUE
    /\ pc = "off"
    /\ position = <<>>
    /\ GpuFresh
    /\ bpc = "off"
    /\ data = <<>>
    /\ hasRadius = FALSE
    /\ tracksExtrema = FALSE
    /\ BoundaryFresh

NextHierarchy ==
    \/ changeData
    \/ sync
    \/ \E rs \in RefSets, action \in {"add", "remove"} : updateCurrent(rs, action)
    \/ currentComponentGroups
    \/ currentSeletionSet

SpecHierarchy == InitHierarchy /\ [][NextHierarchy]_vars

(* ======================================================================= *)
(* Claims                                                                  *)
(* ======================================================================= *)
Finite(x) == x \in 0..(Infinity - 1)

\* C1: for every grid with dx, dy, dz >= 1 the layout getTexture2dSize returns has
\* texCols * texRows >= dz, texDimX >= dx, texDimY >= dy, and texDimX and texDimY
\* are positive integers
C1_LayoutHoldsEverySlice ==
    (calls > 0 /\ Path = "2d") =>
        /\ Finite(lay.texRows) /\ Finite(lay.texDimX) /\ Finite(lay.texDimY)
        /\ lay.texCols * lay.texRows >= dim[3]
        /\ lay.texDimX >= dim[1] /\ lay.texDimX >= 1
        /\ lay.texDimY >= dim[2] /\ lay.texDimY >= 1

\* C2: every pixel offset idx .. idx + 3 that fieldFromTexture2d reads, run on the
\* texture size getTexture2dSize planned, lies inside the width * height * 4 image
C2_ReadsInsideImage ==
    (pc = "extract") => ex.maxIdx < ex.imageLength

\* C3: fieldFromTexture2d reads slice iz from the tile origin at which the 2D
\* render loop drew slice iz, and its column count equals the texCols of rendering
C3_ExtractionMirrorsRender ==
    (pc = "extract") =>
        /\ ex.fboTexCols = lay.texCols
        /\ Len(drawnAt) = dim[3]
        /\ \A k \in 1..Len(readAt) : readAt[k] = drawnAt[k]

\* a whole grid was read back from a layout of several rows and several columns
C3_Witness ==
    /\ pc = "extract"
    /\ Len(readAt) = dim[3]
    /\ lay.texCols >= 2
    /\ dim[2] >= 2
    /\ readAt[dim[3]][2] > 0

BatchTypes == [k \in 1..Len(batches) |-> batches[k].type]

IsPrefix(s, u) == Len(s) <= Len(u) /\ \A k \in 1..Len(s) : s[k] = u[k]

MinDistanceDoneBeforeGroupId ==
    \A k \in 1..Len(batches) :
        batches[k].type = "groupId" =>
            \E j \in 1..(k - 1) :
                /\ batches[j].type = "minDistance"
                /\ batches[j].draws = dim[3]
                /\ batches[j].finished

\* C4 as stated: every invocation, however it ends, ran Density, MinDistance and
\* GroupId in this order, each exactly once, MinDistance finished before GroupId
C4_EveryInvocationRunsAllPasses ==
    /\ MinDistanceDoneBeforeGroupId
    /\ (pc \in {"return", "thrown"}) =>
           BatchTypes = <<"density", "minDistance", "groupId">>

\* C4 amended: an invocation that returns ran Density, MinDistance, GroupId in this
\* order, each exactly once with dz finished draws; at any moment the passes run so
\* far are a prefix of that order and no GroupId batch starts before all dz
\* MinDistance draws are finished; an invocation that throws ran Density only
C4_PassOrder ==
    /\ IsPrefix(BatchTypes, <<"density", "minDistance", "groupId">>)
    /\ MinDistanceDoneBeforeGroupId
    /\ (pc = "return") =>
           /\ BatchTypes = <<"density", "minDistance", "groupId">>
           /\ \A k \in 1..3 : batches[k].draws = dim[3] /\ batches[k].finished
    /\ (pc = "thrown") => (~blendMinMax /\ BatchTypes = <<"density">>)

\* the GroupId pass of a grid of several slices is drawing its second slice
C4_Witness ==
    /\ pc = "slice"
    /\ Len(batches) = 3
    /\ batches[3].type = "groupId"
    /\ batches[3].draws = 1
    /\ dim[3] >= 2

(* ----------------------- claims on the boundary fitter ----------------- *)
\* the radius of point i of the current point set
PointRadius(i) == IF hasRadius THEN data[i].radius ELSE 0

\* squared distance of point i to the centre of the fitted sphere
CenterDistSq(i) == v3squaredDistance(data[i].pos, boundary.sphere.center)

\* the fitted radius sqrt(FittedRootSq) + FittedAdd
FittedRootSq == NumRootSq(boundary.sphere.radius)
FittedAdd == NumCoef(boundary.sphere.radius, 1)

\* sqrt(distSq) > 21/20 of the fitted radius
BeyondUpperBound(distSq) == RootGt(20, distSq, 21, FittedRootSq, 21 * FittedAdd)

MaxDistSq == MaxOf({CenterDistSq(i) : i \in 1..Len(data)})

\* the sphere of radius r around pos lies inside the sphere
InSphere(pos, r, sphere) ==
    RadLeq(v3squaredDistance(pos, sphere.center), r,
           NumRootSq(sphere.radius), NumCoef(sphere.radius, 1))

\* the sphere of radius r around pos lies inside the box
InBox(pos, r, box) ==
    \A k \in 1..3 : /\ LeqNumInt(box.min[k], pos[k] - r)
                    /\ LeqIntNum(pos[k] + r, box.max[k])

Returned == bpc = "adjusted" /\ result.kind = "boundary"
Adjusted == Returned /\ ~result.same
SomeBeyondUpper == \E i \in 1..Len(data) : BeyondUpperBound(CenterDistSq(i))

\* C5: whenever tryAdjustBoundary returns a boundary for a point set, every
\* point of the set, with its radius, lies inside the returned sphere and
\* inside the returned box.
C5_ReturnedBoundaryEncloses ==
    Returned =>
        \A i \in 1..Len(data) :
            /\ InSphere(data[i].pos, PointRadius(i), result.boundary.sphere)
            /\ InBox(data[i].pos, PointRadius(i), result.boundary.box)

\* the largest distance + radius of a point from the candidate centre
MaxReach ==
    LET n == Len(data)
        best == CHOOSE i \in 1..n : \A j \in 1..n :
                    RadLeq(CenterDistSq(j), PointRadius(j), CenterDistSq(i), PointRadius(i))
    IN  NumAdd(NumSqrt(CenterDistSq(best)), NumInt(PointRadius(best)))

\* C6: getBoundary includes every point, then finishes the include step, then
\* refines the radius over every point; the radius of the returned sphere is
\* the largest distance + radius of a point from the candidate centre, and no
\* point lies outside the returned sphere.
C6_FittedRadiusIsMaxReach ==
    /\ bpc \in {"radius", "fitted"} =>
           Len(helpers[Helper].included) = Len(data)
    /\ bpc = "fitted" =>
           /\ t = Len(data)
           /\ boundary.sphere.center = helpers[Helper].center
           /\ boundary.sphere.radius = MaxReach
           /\ \A i \in 1..Len(data) :
                  InSphere(data[i].pos, PointRadius(i), boundary.sphere)

C6_Witness ==
    /\ bpc = "fitted"
    /\ Len(data) = 2
    /\ data[1].pos # data[2].pos
    /\ PointRadius(1) > 0
    /\ (DOMAIN boundary.sphere.radius) \ {1} # {}

\* C7: if the squared distance of any point to the centre of the old sphere
\* exceeds (radius + threshold)^2, threshold = radius / 100 * 5, the call
\* returns undefined, whatever the other points are.
C7_BeyondUpperReturnsUndefined ==
    (bpc = "adjusted" /\ SomeBeyondUpper) => result.kind = "undefined"

C7_Witness ==
    /\ bpc = "adjusted"
    /\ Len(data) = 2
    /\ ~BeyondUpperBound(CenterDistSq(1))
    /\ BeyondUpperBound(CenterDistSq(2))
    /\ result.kind = "undefined"

\* C8: when no point is beyond the abort bound and the new largest distance
\* to the centre equals the old radius up to EPSILON, the call returns the
\* boundary it was given, unchanged.
C8_WithinEpsilonReturnsSame ==
    (bpc = "adjusted" /\ ~SomeBeyondUpper
        /\ NumSqrt(MaxDistSq) = boundary.sphere.radius) =>
        /\ result.kind = "boundary"
        /\ result.same
        /\ result.boundary = boundary

C8_Witness ==
    /\ Returned
    /\ result.same
    /\ result.boundary = boundary
    /\ \E i \in 1..Len(data) : data[i].pos # helpers[Helper].included[i].pos

\* a point at the largest distance from the centre is within 2 * threshold of
\* a tracked extremum of the old sphere
ExtremeNearTracked ==
    \E i \in 1..Len(data) : \E k \in 1..Len(boundary.sphere.extrema) :
        /\ CenterDistSq(i) = MaxDistSq
        /\ ~RootGeq(10, v3squaredDistance(boundary.sphere.extrema[k], data[i].pos),
                    1, FittedRootSq, FittedAdd)

\* C9 as stated: whenever tryAdjustBoundary returns an adjusted boundary, the
\* point at the largest distance from the centre is within 2 * threshold of
\* one of the tracked extrema of the old sphere.
C9_AdjustedOnlyNearExtremum == Adjusted => ExtremeNearTracked

\* C9: whenever tryAdjustBoundary returns an adjusted boundary for an old
\* sphere that has extrema, the point at the largest distance from the centre
\* is within 2 * threshold of one of them; an old sphere without extrema is
\* adjusted without this check.
C9_AdjustedNearExtremumIfTracked ==
    (Adjusted /\ boundary.sphere.hasExtrema) => ExtremeNearTracked

C9_Witness ==
    /\ Adjusted
    /\ boundary.sphere.hasExtrema
    /\ ExtremeNearTracked
    /\ extremPoint \notin {boundary.sphere.extrema[k] :
                              k \in 1..Len(boundary.sphere.extrema)}

\* C10: an accepted adjustment returns a sphere with the old centre and the
\* new largest distance as radius, and the box centre -/+ that radius on
\* every axis.
C10_AdjustedSphereAndBox ==
    Adjusted =>
        LET c == boundary.sphere.center
            r == NumSqrt(MaxDistSq)
        IN  /\ result.boundary.sphere.center = c
            /\ result.boundary.sphere.radius = r
            /\ \A k \in 1..3 :
                   /\ result.boundary.box.min[k] = NumSub(NumInt(c[k]), r)
                   /\ result.boundary.box.max[k] = NumAdd(NumInt(c[k]), r)

C10_Witness ==
    /\ Adjusted
    /\ (DOMAIN boundary.sphere.radius) \subseteq {1}
    /\ (DOMAIN result.boundary.sphere.radius) \ {1} # {}
    /\ boundary.sphere.center # <<0, 0, 0>>

(* ------------------- claims on the density pipeline, continued --------- *)
\* C11: without the MIN/MAX blend equation (webgl.extensions.blendMinMax) an
\* invocation aborts with an error: no MinDistance or GroupId slice is drawn,
\* the invocation never returns a result, and nothing is extracted.
C11_NoBlendMinMaxAborts ==
    (~blendMinMax /\ calls > 0) =>
        /\ pc \in {"setup", "render", "slice", "thrown"}
        /\ \A k \in 1..Len(batches) : batches[k].type = "density"
        /\ pc = "thrown" => (Len(batches) = 1 /\ PassOrder[pass] = "minDistance")
        /\ ex = NoEx

C11_Witness ==
    /\ ~blendMinMax
    /\ pc = "thrown"
    /\ calls = 2
    /\ Len(batches) = 1
    /\ batches[1].draws = dim[3]
    /\ dim[3] > 1

\* C12: a request for a grid with an axis of extent 0 is rejected before any
\* GPU resource is allocated or defined: no texture, framebuffer or renderable
\* is created or resized for it.
C12_EmptyGridAllocatesNothing ==
    (calls > 0 /\ dim \in EmptyDims) =>
        /\ \A id \in TexIds : textures[id] = NoTexture
        /\ ~tmpFramebuffer
        /\ ~renderable.created

\* the grid cell written at position j of data and idData (order z, y, x)
CellOf(j) == <<(j - 1) % dim[1], ((j - 1) \div dim[1]) % dim[2],
               (j - 1) \div (dim[1] * dim[2])>>

\* a point of the current invocation draws into the cell
CellIsDrawn(c) ==
    \E k \in 1..instances.drawCount : InstanceCell(instances.aPosition[k], dim) = c

DensityInRange(v) == v.num # NaN /\ 0 <= v.num /\ v.num <= v.den

\* C13: every density value fieldFromTexture2d writes lies in [0,1], and a
\* cell no point draws into in the current invocation gets density 0.
C13_DensityInUnitRange ==
    \A j \in 1..Len(readback.data) :
        /\ DensityInRange(readback.data[j])
        /\ ~CellIsDrawn(CellOf(j)) => readback.data[j].num = 0

\* C14: for every integer v of the codec's domain, decoding the three bytes
\* that encoding v produced gives v again, so fieldFromTexture2d recovers the
\* group id the GroupId pass wrote.
C14_CodecRoundTrip ==
    /\ codec.pc \in {"encoded", "decoded"} =>
           \A c \in 1..3 : codec.rgb[c] \in 0..255
    /\ (codec.pc = "decoded" /\ codec.v \in CodecDomain) => codec.id = codec.v

C14_Witness ==
    /\ codec.pc = "decoded"
    /\ codec.v = 65791
    /\ codec.rgb = <<1, 0, 255>>
    /\ codec.id = 65791

\* the cached texture that holds the result or the minimum distances of the
\* current invocation has the size that was asked for
CachedSizesAsRequested ==
    LET size(id) == <<textures[id].w, textures[id].h, textures[id].d>>
    IN  IF Path = "2d"
        THEN /\ size("_minDistanceTexture2d") = gridTexDim
             /\ entry = "GaussianDensityGPU" => size("_tmpTexture") = gridTexDim
        ELSE size("_minDistanceTexture3d") = gridTexDim

\* C15: across any sequence of invocations and extractions every cached GPU
\* resource (temporary output texture, min-distance textures, framebuffer,
\* compute renderable) is created at most once and reused afterwards, and
\* after an invocation a cached texture has the requested size.
C15_ResourcesCreatedOnce ==
    /\ \A r \in Resources \ {"texture"} : allocs[r] <= 1
    /\ calls > 0 => CachedSizesAsRequested

\* the helper after including every point of d, and after refining the radius
\* over the points i.. of d
includedAll(d) ==
    [FreshHelper EXCEPT !.included =
        [i \in 1..Len(d) |-> [pos |-> d[i].pos, radius |-> radiusOf(d, i)]]]

RECURSIVE refinedFrom(_, _, _)
refinedFrom(h, d, i) ==
    IF i > Len(d) THEN h
    ELSE refinedFrom(helperRadiusPositionRadius(h, d[i].pos, radiusOf(d, i)), d, i + 1)

\* the boundaries getBoundary(d) can return when nothing else runs
AloneBoundaries(d) ==
    {fittedBoundary(refinedFrom([includedAll(d) EXCEPT !.center = c], d, 1), d) :
        c \in CandidateCenters(includedAll(d))}

\* a getBoundary call has returned and the caller has not called again
BetweenCalls == bpc = "fitted" /\ other.pc = "off"

\* every getBoundary call that has returned gave a boundary it gives when it
\* is the only call ever made
FitsAsAlone ==
    /\ bpc = "fitted" => boundary \in AloneBoundaries(data)
    /\ other.pc = "fitted" => other.boundary \in AloneBoundaries(other.data)

\* C16 as stated: each of two getBoundary calls returns the boundary it
\* returns when run alone, and no mutable state is shared between the calls:
\* the second call finds the module-level helpers and scratch vector as the
\* first call found them.
C16_NoStateSharedBetweenCalls ==
    /\ FitsAsAlone
    /\ BetweenCalls =>
           /\ helpers = [h \in {"coarse", "fine"} |-> FreshHelper]
           /\ p = <<0, 0, 0>>

\* C16: two getBoundary calls, each run to its return before the next starts,
\* each return a boundary they return when run alone, although the second
\* call works on the helper the first call has filled: every call resets the
\* helper before it includes its first point.
C16_SequentialFitsAsAlone ==
    /\ FitsAsAlone
    /\ (other.pc = "fitted" /\ bpc \in {"include", "radius", "fitted"}) =>
           /\ Len(helpers[Helper].included) <= Len(data)
           /\ \A i \in 1..Len(helpers[Helper].included) :
                  helpers[Helper].included[i].pos = data[i].pos

\* the second call has returned; it ran on the helper the first call left
\* filled with other points, and the two boundaries differ
C16_Witness ==
    /\ bpc = "fitted"
    /\ other.pc = "fitted"
    /\ fits = 2
    /\ Len(other.data) = 2
    /\ Len(data) = 1
    /\ data[1].pos \notin {other.data[i].pos : i \in 1..2}
    /\ boundary # other.boundary

\* the render state each pass asks for
PassState(type) ==
    IF type = "minDistance"
    THEN [colorMask |-> <<FALSE, FALSE, FALSE, TRUE>>, blendFunc |-> <<"ONE", "ONE">>,
          blendEquation |-> "MAX"]
    ELSE IF type = "density"
    THEN [colorMask |-> <<FALSE, FALSE, FALSE, TRUE>>, blendFunc |-> <<"ONE", "ONE">>,
          blendEquation |-> "FUNC_ADD"]
    ELSE [colorMask |-> <<TRUE, TRUE, TRUE, FALSE>>, blendFunc |-> <<"ONE", "ZERO">>,
          blendEquation |-> "FUNC_ADD"]

AlphaOf(img) == [id \in TexIds |-> [px \in DOMAIN img[id] |-> img[id][px][4]]]
RGBOf(img) ==
    [id \in TexIds |-> [px \in DOMAIN img[id] |-> <<img[id][px][1], img[id][px][2], img[id][px][3]>>]]

\* what a step taken between the clear of a pass and its last slice draw keeps
PassStep ==
    pc \in {"render", "slice"} =>
        /\ renderable.dCalcType = PassOrder[pass]
        /\ glstate.colorMask = PassState(PassOrder[pass]).colorMask
        /\ glstate.blendFunc = PassState(PassOrder[pass]).blendFunc
        /\ PassOrder[pass] # "groupId" =>
               glstate.blendEquation = PassState(PassOrder[pass]).blendEquation
        /\ PassOrder[pass] = "groupId" => AlphaOf(image') = AlphaOf(image)
        /\ PassOrder[pass] = "density" => RGBOf(image') = RGBOf(image)

\* C17: from the clear of a pass to its last slice draw the render state is
\* that pass's configuration and dCalcType names the pass; the GroupId pass
\* leaves every alpha byte as it was and the Density pass every RGB byte.
C17_PassStateDuringDraws == [][PassStep]_vars

\* the GroupId pass has drawn every slice: a cell holds a group id in RGB and
\* the density the Density pass left in alpha
C17_Witness ==
    /\ pc = "slice"
    /\ PassOrder[pass] = "groupId"
    /\ cursor.i = dim[3]
    /\ \E px \in DOMAIN image[texture] :
           image[texture][px][3] = 1 /\ image[texture][px][4] >= 128

\* origin of the tile of slice i in a layout of cols columns
TileOrigin(i, cols, d) == <<(i % cols) * d[1], (i \div cols) * d[2]>>

\* two dx by dy viewports share a pixel
Overlap(a, b, d) ==
    /\ a[1] < b[1] + d[1] /\ b[1] < a[1] + d[1]
    /\ a[2] < b[2] + d[2] /\ b[2] < a[2] + d[2]

\* C18: in the 2D path slice i is drawn with a dx by dy viewport whose origin is
\* ((i mod texCols) * dx, floor(i / texCols) * dy); the viewports of distinct
\* slices do not overlap and each lies inside the texDimX by texDimY texture.
C18_ViewportsTileTheTexture ==
    (pc = "slice" /\ Path = "2d") =>
        \A k \in 1..Len(drawnAt) :
            /\ lay.texCols >= 1
            /\ drawnAt[k] = TileOrigin(k - 1, lay.texCols, dim)
            /\ k = Len(drawnAt) =>
                   glstate.viewport = <<drawnAt[k][1], drawnAt[k][2], dim[1], dim[2]>>
            /\ drawnAt[k][1] + dim[1] <= lay.texDimX
            /\ drawnAt[k][2] + dim[2] <= lay.texDimY
            /\ \A j \in 1..(k - 1) : ~Overlap(drawnAt[j], drawnAt[k], dim)

\* the renderable without the per-slice uniforms, and without dCalcType as well
PerInvocation(r) == [r EXCEPT !.uCurrentSlice = 0, !.uCurrentX = 0, !.uCurrentY = 0]
PerPass(r) == [PerInvocation(r) EXCEPT !.dCalcType = "density"]

\* what a step of the three passes keeps
InvocationStep ==
    pc \in {"setup", "render", "slice"} =>
        /\ instances = prepareGaussianDensityData(position)
        /\ instances' = instances
        /\ IF pc = "setup" THEN PerPass(renderable') = PerPass(renderable)
           ELSE PerInvocation(renderable') = PerInvocation(renderable)
        /\ \A k \in 1..Len(batches) : batches[k].finished => batches[k].draws = dim[3]

\* C19: the instance parameters are set once, before the first pass; from
\* then on a step changes only uCurrentSlice, uCurrentX, uCurrentY (and
\* dCalcType in a setup), and every pass draws the same instances dz times.
C19_InstancesSetOncePerInvocation == [][InvocationStep]_vars

\* the third pass of a second invocation has drawn its last slice of two points
C19_Witness ==
    /\ pc = "slice"
    /\ calls = 2
    /\ Len(batches) = 3
    /\ cursor.i = dim[3]
    /\ dim[3] >= 2
    /\ batches[3].draws = dim[3]
    /\ instances.drawCount = 2
    /\ renderable.uCurrentSlice = dim[3] - 1

\* the powers of two a grid of the modelled sizes can need
PowersOfTwo == {1, 2, 4, 8, 16, 32, 64}

\* the next power of two >= sqrt(area)
NextPowerOfTwo(area) ==
    CHOOSE e \in PowersOfTwo :
        /\ e * e >= area
        /\ \A f \in PowersOfTwo : f * f >= area => e <= f

\* the layout rule in the arithmetic of the language: x / 0 is Infinity
LayoutRule(dx, dy, dz) ==
    LET size == NextPowerOfTwo(dx * dy * dz)
        cols == IF size < dx * dz THEN size \div dx ELSE dz
        rows == IF size < dx * dz
                THEN (IF cols = 0 THEN Infinity
                      ELSE CHOOSE r \in 1..dz : r * cols >= dz /\ (r - 1) * cols < dz)
                ELSE 1
    IN  [texCols |-> cols, texRows |-> rows,
         texDimX |-> IF size < dx * dz THEN cols * dx ELSE dx * dz,
         texDimY |-> IF rows = Infinity THEN Infinity ELSE dy * rows]

\* C20: the layout a 2D invocation works with is the layout rule applied to
\* its (dx, dy, dz), whatever the earlier invocations were.
C20_LayoutIsTheRule ==
    (calls > 0 /\ Path = "2d") =>
        LET rule == LayoutRule(dim[1], dim[2], dim[3])
        IN  /\ lay.texCols = rule.texCols
            /\ lay.texRows = rule.texRows
            /\ lay.texDimX = rule.texDimX
            /\ lay.texDimY = rule.texDimY

\* a second invocation laid its slices out in several rows of several columns
C20_Witness ==
    /\ calls = 2
    /\ Path = "2d"
    /\ pc = "setup"
    /\ lay.texCols >= 2
    /\ lay.texRows >= 2
    /\ lay.texRows # Infinity

\* C21: gl.finish() follows the last slice draw of every render batch, and
\* GaussianDensityGPU reads the texture back with one readPixels call over the
\* whole texture, issued after the finish of the GroupId batch.
C21_FinishThenOneReadback ==
    /\ \A k \in 1..Len(batches) :
           (k < Len(batches) \/ pc # "slice") =>
               batches[k].finished /\ batches[k].draws = dim[3]
    /\ ex.readPixels <= 1
    /\ pc = "extract" => ex.readPixels = 1
    /\ ex.readPixels = 1 =>
           /\ entry = "GaussianDensityGPU"
           /\ Len(batches) = 3
           /\ batches[3].type = "groupId"
           /\ batches[3].finished
           /\ ex.width = gridTexDim[1] /\ ex.height = gridTexDim[2]

\* every slice of a grid of several slices has been extracted from the one image
C21_Witness ==
    /\ pc = "extract"
    /\ dim[3] >= 2
    /\ ex.iz = dim[3]
    /\ ex.readPixels = 1
    /\ \A k \in 1..3 : batches[k].finished

\* C22: for the t-th active index j the function uploads the position
\* (x[j], y[j], z[j]), the radius radius(j) + radiusOffset and the group id
\* id[j] (t when there is no id array); maxRadius is the largest uploaded radius.
C22_UploadsPerActiveIndex ==
    position.pc = "done" =>
        /\ instances.drawCount = Len(position.indices)
        /\ \A n \in 1..Len(position.indices) :
               LET j == position.indices[n]
               IN  /\ instances.aPosition[n] = position.xyz[j]
                   /\ instances.aRadius[n] = position.radius[j] + position.radiusOffset
                   /\ instances.aGroup[n] =
                          IF position.id = NoId THEN n - 1 ELSE position.id[j]
        /\ instances.maxRadius =
               MaxOf({instances.aRadius[n] : n \in 1..Len(instances.aRadius)} \cup {0})

\* C23: a read of boundingSphere returns the sphere of the current
\* gridDimension and transform, and the read recomputes it only when a
\* create or update came since the read before.
C23_BoundingSphereNeverStale ==
    (directVolume.created /\ directVolume.read) =>
        /\ directVolume.boundingSphere =
               getBoundingSphere(directVolume.gridDimension, directVolume.transform)
        /\ directVolume.recomputed => directVolume.wasDirty

\* a read after two updates that changed the grid, answered from a recomputation
C23_Witness ==
    /\ directVolume.created
    /\ directVolume.read
    /\ directVolume.recomputed
    /\ directVolume.version.transform = 2
    /\ directVolume.boundingSphere # EmptySphere

\* the primitives of one edge in the finished geometry
PrimitivesOf(e) == SelectSeq(links.out, LAMBDA q : q.group = e)
WithStyle(in, e, st) == [in EXCEPT !.style = [in.style EXCEPT ![e + 1] = st]]

\* C24: a link of style Triple is given the geometry of a Double link: two
\* shifted cylinders (lines) of the radius and offset of order 2 and no
\* central one.
C24_TripleDrawnAsDouble ==
    links.pc = "done" =>
        \A e \in 0..(links.linkCount - 1) :
            (~links.ignore[e + 1] /\ styleOf(links, e) = Triple) =>
                /\ order(Triple) = 2
                /\ PrimitivesOf(e) =
                       IF links.fn = "createLinkCylinderMesh"
                       THEN linkCylinders(e, Double, WithStyle(links, e, Double))
                       ELSE linkLines(e, Double, WithStyle(links, e, Double))
                /\ \A k \in 1..Len(PrimitivesOf(e)) :
                       PrimitivesOf(e)[k].shift # 0
                /\ Len(PrimitivesOf(e)) =
                       IF links.fn = "createLinkCylinderMesh" THEN 1 ELSE 2

\* a finished mesh with a Triple link next to a Double link
C24_Witness ==
    /\ links.pc = "done"
    /\ links.fn = "createLinkCylinderMesh"
    /\ links.linkCount = 2
    /\ links.style = <<Double, Triple>>
    /\ links.ignore = <<FALSE, FALSE>>
    /\ Len(links.out) = 2

\* C25: after every slice draw of the 2D path uCurrentX and uCurrentY hold the
\* origin of the viewport of that draw and uCurrentSlice holds its slice index.
C25_UniformsFollowViewport ==
    (pc = "slice" /\ Path = "2d" /\ cursor.i > 0) =>
        /\ renderable.uCurrentX = glstate.viewport[1]
        /\ renderable.uCurrentY = glstate.viewport[2]
        /\ renderable.uCurrentSlice = cursor.i - 1

\* C26: when the first invocation fails for want of the MIN/MAX blend
\* equation, nothing has been cleared or drawn and no cached texture,
\* framebuffer or renderable has been created or defined.
C26_FailureLeavesStateUntouched ==
    (~blendMinMax /\ pc = "thrown" /\ calls = 1) =>
        /\ batches = <<>>
        /\ \A r \in Resources \ {"texture"} : allocs[r] = 0
        /\ \A id \in {"_tmpTexture", "_minDistanceTexture2d", "_minDistanceTexture3d"} :
               textures[id] = NoTexture
        /\ ~tmpFramebuffer
        /\ ~renderable.created

\* the cells of the grid, and the pixel of a cell in the 2D layout just drawn
GridCells == (0..(dim[1] - 1)) \X (0..(dim[2] - 1)) \X (0..(dim[3] - 1))
PixelOfCell(c) == <<drawnAt[c[3] + 1][1] + c[1], drawnAt[c[3] + 1][2] + c[2], 0>>

\* C27: when the GroupId pass of a 2D invocation has drawn its last slice, a
\* cell no point of this invocation draws into has RGB 0 in the output texture,
\* whatever earlier invocations wrote there.
C27_NoGroupIdFromEarlierInvocation ==
    (Path = "2d" /\ pc = "slice" /\ PassOrder[pass] = "groupId" /\ cursor.i = dim[3]) =>
        \A c \in GridCells :
            (~CellIsDrawn(c) /\ PixelOfCell(c) \in DOMAIN image[texture]) =>
                /\ image[texture][PixelOfCell(c)][1] = 0
                /\ image[texture][PixelOfCell(c)][2] = 0
                /\ image[texture][PixelOfCell(c)][3] = 0

\* C28: while the passes of an invocation run, the cached renderable has the
\* dGridTexType of the running path and is bound to that path's min-distance
\* texture, which is the texture the MinDistance pass renders into.
C28_RenderableFollowsPath ==
    pc \in {"setup", "render", "slice", "return"} =>
        /\ renderable.dGridTexType = Path
        /\ renderable.tMinDistanceTex =
               (IF Path = "2d" THEN "_minDistanceTexture2d" ELSE "_minDistanceTexture3d")
        /\ \A k \in 1..Len(batches) :
               (batches[k].type = "minDistance" /\ "fbTex" \in DOMAIN batches[k]) =>
                   batches[k].fbTex = renderable.tMinDistanceTex

\* a 3D invocation after a 2D one is drawing its GroupId pass
C28_Witness ==
    /\ calls = 2
    /\ Path = "3d"
    /\ textures["_minDistanceTexture2d"].created
    /\ pc = "slice"
    /\ PassOrder[pass] = "groupId"
    /\ cursor.i >= 1
    /\ Len(batches) = 3

\* what a call of tryAdjustBoundary leaves as it was: the position data, the
\* boundary it was given (centre, radius and extrema of the sphere, and the
\* box) and everything the fit left behind; what it returns is nothing, the
\* given boundary itself, or a boundary whose sphere and box are objects
\* created by the call
AdjustStep ==
    (bpc = "moved" /\ bpc' = "adjusted") =>
        /\ data' = data
        /\ hasRadius' = hasRadius
        /\ boundary'.sphere.center = boundary.sphere.center
        /\ boundary'.sphere.radius = boundary.sphere.radius
        /\ boundary'.sphere.hasExtrema = boundary.sphere.hasExtrema
        /\ boundary'.sphere.extrema = boundary.sphere.extrema
        /\ boundary'.box = boundary.box
        /\ result'.kind \in {"undefined", "boundary"}
        /\ result'.kind = "boundary" =>
               IF result'.same
               THEN /\ result'.boundary = boundary
                    /\ result'.sphereObject = "boundary.sphere"
                    /\ result'.boxObject = "boundary.box"
               ELSE /\ result'.sphereObject = "Sphere3D()"
                    /\ result'.boxObject = "Box3D()"
                    /\ result'.boundary.sphere # boundary.sphere
                    /\ result'.boundary.box # boundary.box
        /\ <<fits, tracksExtrema, helpers>>' = <<fits, tracksExtrema, helpers>>

\* C29: tryAdjustBoundary modifies neither the position data nor the boundary
\* it is given, whatever it returns: the centre, radius and extrema of the
\* given sphere and the given box are as before; an adjusted boundary is a
\* sphere and a box created by the call, and the unadjusted answer is the
\* given boundary itself.
C29_AdjustLeavesInputAlone == [][AdjustStep]_vars

\* an adjusted boundary was returned for a boundary with extrema and a point
\* set the caller had moved
C29_Witness ==
    /\ bpc = "adjusted"
    /\ result.kind = "boundary"
    /\ ~result.same
    /\ result.sphereObject = "Sphere3D()"
    /\ Len(boundary.sphere.extrema) >= 1
    /\ result.boundary.sphere.center = boundary.sphere.center
    /\ \E i \in 1..Len(data) : data[i].pos # helpers[Helper].included[i].pos

\* a present cache holds the value computed from the given current selection
CachesCoherent(m) ==
    /\ m.selectionSet.present => m.selectionSet.value = selectionSetOf(m.current)
    /\ m.componentGroups.present =>
           m.componentGroups.value = getComponentGroups(m.current.structures)

\* every current ref is the ref object of state.hierarchy, in the list of its kind
CurrentInHierarchy(m) ==
    \A kind \in {"trajectory", "model", "structure"} :
        LET cur == IF kind = "trajectory" THEN m.current.trajectories
                   ELSE IF kind = "model" THEN m.current.models ELSE m.current.structures
        IN  \A i \in 1..Len(cur) :
                \E j \in 1..Len(refsOfKind(m.built, kind)) :
                    refsOfKind(m.built, kind)[j] = cur[i]

HierarchyStep ==
    /\ CachesCoherent(hierarchy) /\ CachesCoherent(hierarchy')
    /\ CurrentInHierarchy(hierarchy) /\ CurrentInHierarchy(hierarchy')
    /\ hierarchy'.current # hierarchy.current =>
           (~hierarchy'.selectionSet.present /\ ~hierarchy'.componentGroups.present)

\* C30: before and after every sync, updateCurrent and cache read, a cached
\* selection set or component grouping equals the value recomputed from
\* state.current, every current ref is a ref of state.hierarchy, and a step
\* that changes state.current leaves both caches empty.
C30_CachesFollowCurrent == [][HierarchyStep]_vars

\* both caches are filled for a selection of two structures after an update
C30_Witness ==
    /\ hierarchy.pc = "on"
    /\ hierarchy.selectionSet.present
    /\ hierarchy.componentGroups.present
    /\ Len(hierarchy.current.structures) = 2
    /\ Len(hierarchy.componentGroups.value) = 1
    /\ Len(hierarchy.componentGroups.value[1]) = 2

====
